---- MODULE Spec2Model ----
(***************************************************************************)
(* Model of reports/scripts/generate_reports.py: the metrics collector     *)
(* (readiness probe, scalar metrics, per-pod metrics, per-pod time         *)
(* series), the threshold evaluator and the orchestration in main.         *)
(*                                                                         *)
(* Decimal values are exact rationals n/d (d > 0) or the quiet NaN that    *)
(* Prometheus returns for an empty quantile or a 0/0 ratio; Python's None  *)
(* is a third kind.  All three are records with the same fields.           *)
(***************************************************************************)
EXTENDS Integers, Sequences, FiniteSets, TLC

VARIABLES
    pc,            \* the operation in progress
    max_attempts,  \* wait_for_k6_metrics: parameter
    attempt,       \* wait_for_k6_metrics: completed loop iterations
    result,        \* wait_for_k6_metrics: the last _query_scalar result
    wait_result,   \* wait_for_k6_metrics: "running", "True", "False", "raised"
    probes,        \* scalar queries issued by the probe
    sleeps,        \* time.sleep calls made by the probe
    nonpos,        \* probe attempts answered by None or a value <= 0
    scalar_failed, \* _query_scalar called on its own: the backend raised
    exc,           \* the exception raised and not caught so far, or "none"
    k6_pc,         \* collect_k6_metrics: the next query, "done" or "raised"
    k6,            \* collect_k6_metrics: the locals that become K6Metrics
    k6_asked,      \* collect_k6_metrics: the queries issued, in order
    p95_primary,   \* collect_k6_metrics: p95_latency after the primary query
    p95_secondary, \* collect_k6_metrics: the fallback query's result, if issued
    pod_pc,        \* collect_pod_metrics: "idle" or "done"
    pod_asked,     \* collect_pod_metrics: the queries issued, in order
    pod_failed,    \* collect_pod_metrics: the query the backend raised on, or "none"
    cpu_obtained,  \* collect_pod_metrics: what the CPU query returned inside the try statement
    cpu_results,   \* collect_pod_metrics: local, after the try statement
    mem_results,   \* collect_pod_metrics: local, after the try statement
    pod_metrics,   \* collect_pod_metrics: the list of PodResourceMetrics returned
    cumulative,    \* collect_pod_metrics: the CumulativeResourceMetrics returned
    max_cpu,       \* collect_pod_metrics: local
    max_mem,       \* collect_pod_metrics: local
    range_asked,   \* range queries issued by the operation run, in order
    range_failed,  \* the range query the backend raised on, or "none"
    cpu_result,    \* the CPU range answer held by the operation
    mem_result,    \* the memory range answer held by the operation
    series_pc,     \* collect_per_pod_time_series: "idle" or "done"
    per_pod,       \* PerPodTimeSeriesData returned by collect_per_pod_time_series
    ts_pc,         \* collect_time_series: "idle" or "done"
    time_series,   \* TimeSeriesData returned by collect_time_series
    range_pc,      \* get_k6_test_time_range: "idle" or "done"
    k6_result,     \* get_k6_test_time_range: the range answer held
    k6_time_range, \* get_k6_test_time_range: the value returned
    eval_pc,       \* JUnitReportGenerator._evaluate_tests: "idle", "done", "raised"
    results,       \* the list of TestResult returned by _evaluate_tests
    backend,       \* main: what the backend does during the run
    format,        \* main: args.format
    test_config,   \* main: "unset", "none" or "plan"
    html_pc,       \* HTMLReportGenerator.generate: "idle", "done", "raised"
    html_status,   \* the p95_status and error_status of the HTML report
    junit_pc,      \* JUnitReportGenerator._write_junit_xml: "idle", "done", "raised"
    status,        \* main: the value returned, 0 or 1; -1 until it returns
    dur_pc,        \* duration conversions: "idle", "formatted", "parsed"
    seconds,       \* seconds_to_duration_str: its argument
    duration_str,  \* the duration string, a sequence of characters
    parsed,        \* parse_duration_to_seconds: the value returned
    plan_pc,       \* the test plan: "idle", "parsed", "staged"
    config,        \* parse_k6_script: the K6TestConfig returned
    anchor,        \* calculate_vu_stages: test_start_time and where it comes from
    vu_stages,     \* calculate_vu_stages: the list of VUStage returned
    graph_pc,      \* generate_resource_graph: "idle", "done"
    graph_cumulative, \* generate_resource_graph: the cumulative series
    graph_per_pod,  \* generate_resource_graph: the series of each pod
    graph_stages,  \* generate_resource_graph: its vu_stages
    svg,           \* generate_resource_graph: the scales and shapes of the SVG returned
    junit_xml,     \* _write_junit_xml: the element tree written to junit.xml
    th_pc,         \* threshold extraction of parse_k6_script: "idle", "done"
    th_block,      \* the thresholds block of the script and the entries matched in it
    thresholds     \* parse_k6_script: the thresholds dict

waitVars == <<max_attempts, attempt, result, wait_result, probes, sleeps, nonpos,
              scalar_failed>>
k6Vars == <<k6_pc, k6, k6_asked, p95_primary, p95_secondary>>
podVars == <<pod_pc, pod_asked, pod_failed, cpu_obtained, cpu_results, mem_results, pod_metrics,
             cumulative, max_cpu, max_mem>>
rangeVars == <<range_asked, range_failed, cpu_result, mem_result, series_pc, per_pod,
               ts_pc, time_series, range_pc, k6_result, k6_time_range>>
evalVars == <<eval_pc, results>>
mainVars == <<backend, format, test_config, html_pc, html_status, junit_pc, status>>
durVars == <<dur_pc, seconds, duration_str, parsed>>
planVars == <<plan_pc, config, anchor, vu_stages>>
graphVars == <<graph_pc, graph_cumulative, graph_per_pod, graph_stages, svg>>
thVars == <<th_pc, th_block, thresholds>>
outVars == <<graphVars, junit_xml, thVars>>
reportVars == <<durVars, planVars, outVars>>
vars == <<pc, exc, waitVars, k6Vars, podVars, rangeVars, evalVars, mainVars, reportVars>>

----------------------------------------------------------------------------
(* Bounds of the model *)

\* largest max_attempts the probe is started with
MaxAttemptsBound == 5

\* most samples in the answer to an instant query by pod
MaxItems == 2

\* most series in the answer to a range query
MaxSeries == 2

\* largest number of seconds formatted as a duration
MaxSeconds == 605

\* most stages in the options of a k6 script
MaxStages == 3

\* most entries matched in the thresholds block of a k6 script
MaxEntries == 3

----------------------------------------------------------------------------
(* Values *)

Dec(n, d) == [kind |-> "num", n |-> n, d |-> d]
NaN == [kind |-> "nan", n |-> 0, d |-> 1]
None == [kind |-> "none", n |-> 0, d |-> 1]
Zero == Dec(0, 1)

IsNum(x) == x.kind = "num"

\* Decimal ordering on numbers, by cross-multiplication (denominators > 0)
DecLt(a, b) == a.n * b.d < b.n * a.d
DecLe(a, b) == a.n * b.d <= b.n * a.d
DecEq(a, b) == a.n * b.d = b.n * a.d

\* a > b, a <= b, a < b on Decimals: an ordering comparison with a NaN
\* operand signals InvalidOperation ("raise")
PyGt(a, b) == IF IsNum(a) /\ IsNum(b) THEN (IF DecLt(b, a) THEN "true" ELSE "false") ELSE "raise"
PyLe(a, b) == IF IsNum(a) /\ IsNum(b) THEN (IF DecLe(a, b) THEN "true" ELSE "false") ELSE "raise"
PyLt(a, b) == IF IsNum(a) /\ IsNum(b) THEN (IF DecLt(a, b) THEN "true" ELSE "false") ELSE "raise"

\* a == b on Decimals: never raises, a NaN equals nothing
PyEq(a, b) == IsNum(a) /\ IsNum(b) /\ DecEq(a, b)

----------------------------------------------------------------------------
(* The backend's answers to a scalar (instant) query *)

\* custom_query raises, returns no sample, or returns a sample whose value
\* text does not parse, is "NaN", or denotes the number n/d
RespRaise == [kind |-> "raise", n |-> 0, d |-> 1]
RespEmpty == [kind |-> "empty", n |-> 0, d |-> 1]
RespBad == [kind |-> "bad", n |-> 0, d |-> 1]
RespNaN == [kind |-> "nan", n |-> 0, d |-> 1]
RespNum(n, d) == [kind |-> "num", n |-> n, d |-> d]

\* counters, rates and latencies: 0, 0.5, 1 and 2
ScalarNumbers == {RespNum(0, 1), RespNum(1, 2), RespNum(1, 1), RespNum(2, 1)}
ScalarResponses == {RespRaise, RespEmpty, RespBad, RespNaN} \cup ScalarNumbers

\* the probe is also tried on a negative value
ProbeResponses == ScalarResponses \cup {RespNum(-1, 1)}

\* MetricsCollector._query_scalar
query_scalar(r) ==
    CASE r.kind = "num" -> Dec(r.n, r.d)
      [] r.kind = "nan" -> NaN
      [] OTHER -> None

\* MetricsCollector._query_scalar_or_zero
query_scalar_or_zero_BugOne(r) ==
    LET res == query_scalar(r) IN IF res # None THEN res ELSE Dec(1, 1)

query_scalar_or_zero(r) ==
    LET res == query_scalar(r) IN IF res # None THEN res ELSE Zero

----------------------------------------------------------------------------
(* parse_duration_to_seconds and seconds_to_duration_str; a string is a
   sequence of characters *)

Digits == <<"0", "1", "2", "3", "4", "5", "6", "7", "8", "9">>

IsDigit(c) == \E d \in 1..10 : Digits[d] = c

DigitValue(c) == (CHOOSE d \in 1..10 : Digits[d] = c) - 1

\* f"{n}" of an int n >= 0
RECURSIVE Str(_)
Str(n) == IF n < 10 THEN <<Digits[n + 1]>> ELSE Str(n \div 10) \o <<Digits[(n % 10) + 1]>>

\* int() of a string of digits
RECURSIVE IntOf(_)
IntOf(ds) == IF ds = <<>> THEN 0 ELSE 10 * IntOf(SubSeq(ds, 1, Len(ds) - 1)) + DigitValue(ds[Len(ds)])

\* the first position of the digits ending at position j - 1
RECURSIVE RunStart(_, _)
RunStart(str, j) == IF j > 1 /\ IsDigit(str[j - 1]) THEN RunStart(str, j - 1) ELSE j

\* re.search(r"(\d+)<unit>", str): the positions of unit that follow a digit
MatchEnds(str, unit) == {j \in 2..Len(str) : str[j] = unit /\ IsDigit(str[j - 1])}

\* group(1) of the leftmost match as an int, 0 when nothing matches
SearchNumber(str, unit) ==
    IF MatchEnds(str, unit) = {} THEN 0
    ELSE LET j == CHOOSE e \in MatchEnds(str, unit) : \A f \in MatchEnds(str, unit) : e <= f
         IN IntOf(SubSeq(str, RunStart(str, j), j - 1))

\* lines 160-181
parse_duration_to_seconds(str) == SearchNumber(str, "m") * 60 + SearchNumber(str, "s")

seconds_to_duration_str_BugDropSeconds(s) ==
    IF s \div 60 > 0 THEN Str(s \div 60) \o <<"m">> ELSE Str(s % 60) \o <<"s">>

\* lines 184-201
seconds_to_duration_str(s) ==
    LET minutes == s \div 60
        remaining_seconds == s % 60
    IN IF minutes > 0 /\ remaining_seconds > 0
       THEN Str(minutes) \o <<"m">> \o Str(remaining_seconds) \o <<"s">>
       ELSE IF minutes > 0 THEN Str(minutes) \o <<"m">>
       ELSE Str(remaining_seconds) \o <<"s">>

DurIdle ==
    /\ dur_pc = "idle"
    /\ seconds = 0
    /\ duration_str = <<>>
    /\ parsed = 0

\* seconds_to_duration_str(seconds)
FormatDuration ==
    /\ pc = "duration" /\ dur_pc = "idle"
    /\ duration_str' = seconds_to_duration_str(seconds)
    /\ dur_pc' = "formatted"
    /\ UNCHANGED <<pc, exc, waitVars, k6Vars, podVars, rangeVars, evalVars, mainVars, seconds,
                   parsed, planVars, outVars>>

\* parse_duration_to_seconds(duration_str)
ParseDuration ==
    /\ pc = "duration" /\ dur_pc = "formatted"
    /\ parsed' = parse_duration_to_seconds(duration_str)
    /\ dur_pc' = "parsed"
    /\ UNCHANGED <<pc, exc, waitVars, k6Vars, podVars, rangeVars, evalVars, mainVars, seconds,
                   duration_str, planVars, outVars>>

----------------------------------------------------------------------------
(* parse_k6_script and calculate_vu_stages *)

\* lines 52-57
K6Stage(duration, target) == [duration |-> duration, target |-> target]

\* the durations and targets the stages of a script are written with
StageDurations ==
    {<<"3", "0", "s">>, <<"6", "0", "s">>, <<"2", "m", "3", "0", "s">>, <<"1", "h">>}

StageTargets == {20, 50}

\* lines 218-227: the stage lists the regular expressions extract
StageLists == UNION {[1..k -> [duration : StageDurations, target : StageTargets]] : k \in 0..MaxStages}

\* line 230
RECURSIVE total_seconds_of(_)
total_seconds_of(stages) ==
    IF stages = <<>> THEN 0
    ELSE parse_duration_to_seconds(Head(stages).duration) + total_seconds_of(Tail(stages))

peak_vus_of_BugLast(stages) == IF stages = <<>> THEN 0 ELSE stages[Len(stages)].target

\* line 232
peak_vus_of(stages) ==
    IF stages = <<>> THEN 0
    ELSE CHOOSE t \in {stages[i].target : i \in 1..Len(stages)} :
            \A i \in 1..Len(stages) : stages[i].target <= t

\* lines 229-232 and 273-279: the K6TestConfig of a stage list
k6_test_config(stages) ==
    [stages |-> stages,
     total_duration |-> seconds_to_duration_str(total_seconds_of(stages)),
     peak_vus |-> peak_vus_of(stages)]

NoConfig == [stages |-> <<>>, total_duration |-> <<>>, peak_vus |-> 0]

NoAnchor == [from |-> "none", t |-> 0]

next_start_BugStay(current_time, end_time) == current_time

\* line 307: current_time = end_time
next_start(current_time, end_time) == end_time

\* lines 294-309
RECURSIVE calculate_vu_stages(_, _)
calculate_vu_stages(current_time, stages) ==
    IF stages = <<>> THEN <<>>
    ELSE LET duration_seconds == parse_duration_to_seconds(Head(stages).duration)
             end_time == current_time + duration_seconds
         IN <<[start_timestamp |-> current_time, end_timestamp |-> end_time,
               vus |-> Head(stages).target]>>
            \o calculate_vu_stages(next_start(current_time, end_time), Tail(stages))

PlanIdle ==
    /\ plan_pc = "idle"
    /\ config = NoConfig
    /\ anchor = NoAnchor
    /\ vu_stages = <<>>

\* the whole of parse_k6_script on a script with the stage list sl
ParseScript(P) ==
    /\ pc = "plan" /\ plan_pc = "idle"
    /\ \E sl \in P : config' = k6_test_config(sl)
    /\ plan_pc' = "parsed"
    /\ UNCHANGED <<pc, exc, waitVars, k6Vars, podVars, rangeVars, evalVars, mainVars, durVars, outVars,
                   anchor, vu_stages>>

\* the whole of calculate_vu_stages(test_start_time, config.stages)
CalculateStages(T) ==
    /\ pc = "plan" /\ plan_pc = "parsed"
    /\ \E t \in T :
         /\ anchor' = [from |-> "given", t |-> t]
         /\ vu_stages' = calculate_vu_stages(t, config.stages)
    /\ plan_pc' = "staged"
    /\ UNCHANGED <<pc, exc, waitVars, k6Vars, podVars, rangeVars, evalVars, mainVars, durVars, outVars,
                   config>>

----------------------------------------------------------------------------
(* MetricsCollector.wait_for_k6_metrics *)

\* the test of line 333: "true", "false" or "raise"
wait_ready_BugGe(res) ==
    IF res = None THEN "false"
    ELSE IF IsNum(res) THEN (IF res.n >= 0 THEN "true" ELSE "false") ELSE "raise"

wait_ready(res) == IF res = None THEN "false" ELSE PyGt(res, Zero)

\* an answer that is None or a number <= 0
NonPositive(res) == res = None \/ (IsNum(res) /\ res.n <= 0)

\* one iteration of the loop: query, test, then return True or sleep
WaitAttempt(R) ==
    /\ pc = "wait"
    /\ wait_result = "running"
    /\ attempt < max_attempts
    /\ \E r \in R :
         LET res == query_scalar(r)
             ready == wait_ready(res)
         IN /\ result' = res
            /\ probes' = probes + 1
            /\ nonpos' = IF NonPositive(res) THEN nonpos + 1 ELSE nonpos
            /\ attempt' = attempt + 1
            /\ wait_result' = CASE ready = "true" -> "True"
                                [] ready = "raise" -> "raised"
                                [] OTHER -> "running"
            /\ sleeps' = IF ready = "false" THEN sleeps + 1 ELSE sleeps
            /\ exc' = IF ready = "raise" THEN "InvalidOperation" ELSE exc
    /\ UNCHANGED <<pc, max_attempts, scalar_failed, k6Vars, podVars, rangeVars, evalVars, mainVars,
                   reportVars>>

\* the loop is exhausted: return False
WaitExhausted ==
    /\ pc = "wait"
    /\ wait_result = "running"
    /\ attempt >= max_attempts
    /\ wait_result' = "False"
    /\ UNCHANGED <<pc, exc, max_attempts, attempt, result, probes, sleeps, nonpos,
                   scalar_failed, k6Vars, podVars, rangeVars, evalVars, mainVars, reportVars>>

WaitInit ==
    /\ attempt = 0
    /\ result = None
    /\ wait_result = "running"
    /\ probes = 0
    /\ sleeps = 0
    /\ nonpos = 0
    /\ scalar_failed = FALSE

----------------------------------------------------------------------------
(* MetricsCollector.collect_k6_metrics *)

RECURSIVE GCD(_, _)
GCD(a, b) == IF b = 0 THEN a ELSE GCD(b, a % b)

Abs(n) == IF n < 0 THEN -n ELSE n

\* int(x) of a Decimal number: truncation toward zero
Trunc(x) == IF x.n >= 0 THEN x.n \div x.d ELSE -((-x.n) \div x.d)

\* Decimal(a) / Decimal(b) of two ints, b # 0, in lowest terms
DecDiv(a, b) ==
    LET g == GCD(Abs(a), Abs(b))
        s == IF b < 0 THEN -1 ELSE 1
    IN Dec((s * a) \div g, (s * b) \div g)

K6Fields == [total_requests |-> 0, request_rate |-> Zero, p95_latency_ms |-> Zero,
             avg_latency_ms |-> Zero, min_latency_ms |-> Zero, max_latency_ms |-> Zero,
             error_rate |-> Zero, failed_requests |-> 0]

K6Init ==
    /\ k6_pc = "total"
    /\ k6 = K6Fields
    /\ k6_asked = <<>>
    /\ p95_primary = Zero
    /\ p95_secondary = None

\* int(self._query_scalar_or_zero(...)): a NaN cannot be converted
int_or_raise(v) == IF IsNum(v) THEN [ok |-> TRUE, val |-> Trunc(v)] ELSE [ok |-> FALSE, val |-> 0]

\* lines 361-362: total_requests
K6Total(R) ==
    /\ pc = "k6" /\ k6_pc = "total"
    /\ \E r \in R :
         LET i == int_or_raise(query_scalar_or_zero(r))
         IN /\ k6' = IF i.ok THEN [k6 EXCEPT !.total_requests = i.val] ELSE k6
            /\ k6_pc' = IF i.ok THEN "rate" ELSE "raised"
            /\ exc' = IF i.ok THEN exc ELSE "ValueError"
    /\ k6_asked' = Append(k6_asked, "total")
    /\ UNCHANGED <<pc, waitVars, p95_primary, p95_secondary, podVars, rangeVars, evalVars, mainVars,
                   reportVars>>

\* a query whose result-or-zero is stored as it is (lines 364, 375, 381, 382)
K6Store(R, at, field, next) ==
    /\ pc = "k6" /\ k6_pc = at
    /\ \E r \in R : k6' = [k6 EXCEPT ![field] = query_scalar_or_zero(r)]
    /\ k6_pc' = next
    /\ k6_asked' = Append(k6_asked, at)
    /\ UNCHANGED <<pc, exc, waitVars, p95_primary, p95_secondary, podVars, rangeVars, evalVars, mainVars,
                   reportVars>>

K6Rate(R) == K6Store(R, "rate", "request_rate", "p95")

\* the test of line 371
p95_needs_fallback_BugNever(v) == FALSE

p95_needs_fallback(v) == PyEq(v, Zero)

\* lines 367-371: the primary p95 query and the fallback test
K6P95(R) ==
    /\ pc = "k6" /\ k6_pc = "p95"
    /\ \E r \in R :
         LET v == query_scalar_or_zero(r)
         IN /\ k6' = [k6 EXCEPT !.p95_latency_ms = v]
            /\ p95_primary' = v
            /\ k6_pc' = IF p95_needs_fallback(v) THEN "p95_trend" ELSE "avg"
    /\ k6_asked' = Append(k6_asked, "p95")
    /\ UNCHANGED <<pc, exc, waitVars, p95_secondary, podVars, rangeVars, evalVars, mainVars,
                   reportVars>>

\* line 372: the fallback query
K6P95Fallback(R) ==
    /\ pc = "k6" /\ k6_pc = "p95_trend"
    /\ \E r \in R :
         /\ k6' = [k6 EXCEPT !.p95_latency_ms = query_scalar_or_zero(r)]
         /\ p95_secondary' = query_scalar(r)
    /\ k6_pc' = "avg"
    /\ k6_asked' = Append(k6_asked, "p95_trend")
    /\ UNCHANGED <<pc, exc, waitVars, p95_primary, podVars, rangeVars, evalVars, mainVars,
                   reportVars>>

K6Avg(R) == K6Store(R, "avg", "avg_latency_ms", "min")
K6Min(R) == K6Store(R, "min", "min_latency_ms", "max")
K6Max(R) == K6Store(R, "max", "max_latency_ms", "failed")

\* the guard of line 390
rate_is_defined_BugGe(total) == total >= 0

rate_is_defined(total) == total > 0

\* lines 388-392: [ok, val]; a Decimal division by zero raises
error_rate_of(failed, total) ==
    IF rate_is_defined(total)
    THEN (IF total = 0 THEN [ok |-> FALSE, val |-> Zero]
          ELSE [ok |-> TRUE, val |-> DecDiv(failed, total)])
    ELSE [ok |-> TRUE, val |-> Zero]

\* lines 385-404: failed_requests, error_rate and the K6Metrics returned
K6Failed(R) ==
    /\ pc = "k6" /\ k6_pc = "failed"
    /\ \E r \in R :
         LET i == int_or_raise(query_scalar_or_zero(r))
             e == error_rate_of(i.val, k6.total_requests)
         IN /\ k6' = IF i.ok /\ e.ok
                        THEN [k6 EXCEPT !.failed_requests = i.val, !.error_rate = e.val]
                        ELSE k6
            /\ k6_pc' = IF i.ok /\ e.ok THEN "done" ELSE "raised"
            /\ exc' = CASE ~i.ok -> "ValueError"
                         [] ~e.ok -> "DivisionByZero"
                         [] OTHER -> exc
    /\ k6_asked' = Append(k6_asked, "failed")
    /\ UNCHANGED <<pc, waitVars, p95_primary, p95_secondary, podVars, rangeVars, evalVars, mainVars,
                   reportVars>>

K6Step(R) ==
    \/ K6Total(R)
    \/ K6Rate(R)
    \/ K6P95(R)
    \/ K6P95Fallback(R)
    \/ K6Avg(R)
    \/ K6Min(R)
    \/ K6Max(R)
    \/ K6Failed(R)

----------------------------------------------------------------------------
(* MetricsCollector.collect_pod_metrics *)

\* Decimal + Decimal, in lowest terms
DecAdd(a, b) ==
    LET n == a.n * b.d + b.n * a.d
        d == a.d * b.d
        g == GCD(Abs(n), d)
    IN Dec(n \div g, d \div g)

\* the pod label values of the samples; an empty label is an absent one
PodLabels == {"http-echo-bar", "http-echo-foo", ""}

\* the sample values: 0.5 and 2
PodValues == {Dec(1, 2), Dec(2, 1)}

PodItems == [pod : PodLabels, value : PodValues]

SeqsUpTo(S, n) == UNION {[1..k -> S] : k \in 0..n}

\* the answers to an instant query by pod: custom_query raises or returns samples
InstantAnswers == {[raised |-> r, items |-> it] : r \in {FALSE}, it \in SeqsUpTo(PodItems, MaxItems)}
                      \cup {[raised |-> TRUE, items |-> <<>>]}

\* item["metric"].get("pod", "unknown")
pod_name_of(item) == IF item.pod = "" THEN "unknown" ELSE item.pod

\* pods[name] = entry
Put(pods, name, entry) ==
    [n \in DOMAIN pods \cup {name} |-> IF n = name THEN entry ELSE pods[n]]

\* the dict without entries
EmptyDict == [n \in {} |-> Zero]

\* lines 432-435
RECURSIVE merge_cpu(_, _)
merge_cpu(pods, items) ==
    IF items = <<>> THEN pods
    ELSE merge_cpu(Put(pods, pod_name_of(Head(items)),
                       [cpu |-> Head(items).value, mem |-> Zero]),
                   Tail(items))

\* lines 440-443: the entry of a pod the memory answer names
mem_entry_BugReset(pods, name, value) == [cpu |-> Zero, mem |-> value]

mem_entry(pods, name, value) ==
    IF name \in DOMAIN pods THEN [pods[name] EXCEPT !.mem = value]
    ELSE [cpu |-> Zero, mem |-> value]

\* lines 437-443
RECURSIVE merge_mem(_, _)
merge_mem(pods, items) ==
    IF items = <<>> THEN pods
    ELSE LET name == pod_name_of(Head(items))
         IN merge_mem(Put(pods, name, mem_entry(pods, name, Head(items).value)),
                      Tail(items))

\* the pod names in the order of sorted()
NameOrder == <<"http-echo-FOO", "http-echo-bar", "http-echo-foo", "http-echo-foobar", "unknown">>

SortedNames(S) == SelectSeq(NameOrder, LAMBDA n : n \in S)

\* lines 445-454
pod_metrics_of(pods) ==
    LET names == SortedNames(DOMAIN pods)
    IN [i \in 1..Len(names) |->
          [pod_name |-> names[i],
           avg_cpu_millicores |-> pods[names[i]].cpu,
           max_cpu_millicores |-> pods[names[i]].cpu,
           avg_memory_mb |-> pods[names[i]].mem,
           max_memory_mb |-> pods[names[i]].mem]]

\* sum(p.<field> for p in pod_metrics)
RECURSIVE SumField(_, _)
SumField(ms, field) ==
    IF ms = <<>> THEN Zero ELSE DecAdd(Head(ms)[field], SumField(Tail(ms), field))

\* max((p.<field> for p in pod_metrics), default=Decimal("0"))
RECURSIVE MaxField(_, _)
MaxField(ms, field) ==
    IF ms = <<>> THEN Zero
    ELSE IF Len(ms) = 1 THEN Head(ms)[field]
    ELSE LET m == MaxField(Tail(ms), field)
         IN IF DecLt(Head(ms)[field], m) THEN m ELSE Head(ms)[field]

\* lines 462-467
cumulative_of_BugMax(total_cpu, total_mem, mx_cpu, mx_mem) ==
    [avg_cpu_millicores |-> total_cpu, max_cpu_millicores |-> mx_cpu,
     avg_memory_mb |-> total_mem, max_memory_mb |-> mx_mem]

cumulative_of(total_cpu, total_mem, mx_cpu, mx_mem) ==
    [avg_cpu_millicores |-> total_cpu, max_cpu_millicores |-> total_cpu,
     avg_memory_mb |-> total_mem, max_memory_mb |-> total_mem]

\* lines 456-458: the total of a field
total_of(ms, field) == SumField(ms, field)

\* lines 421-427: the answers kept by the try statement; the memory query
\* is issued only when the CPU query returned
kept_answers_BugKeepCpu(cpu, mem) ==
    IF cpu.raised THEN [cpu |-> <<>>, mem |-> <<>>]
    ELSE [cpu |-> cpu.items, mem |-> IF mem.raised THEN <<>> ELSE mem.items]

kept_answers(cpu, mem) ==
    IF cpu.raised \/ mem.raised THEN [cpu |-> <<>>, mem |-> <<>>]
    ELSE [cpu |-> cpu.items, mem |-> mem.items]

PodInit ==
    /\ pod_pc = "idle"
    /\ pod_asked = <<>>
    /\ pod_failed = "none"
    /\ cpu_obtained = <<>>
    /\ cpu_results = <<>>
    /\ mem_results = <<>>
    /\ pod_metrics = <<>>
    /\ cumulative = cumulative_of(Zero, Zero, Zero, Zero)
    /\ max_cpu = Zero
    /\ max_mem = Zero

\* the whole of collect_pod_metrics
CollectPod(A) ==
    /\ pc = "pod" /\ pod_pc = "idle"
    /\ \E cpu \in A : \E mem \in (IF cpu.raised THEN {cpu} ELSE A) :
         LET kept == kept_answers(cpu, mem)
             pods == merge_mem(merge_cpu(EmptyDict, kept.cpu), kept.mem)
             ms == pod_metrics_of(pods)
             total_cpu == total_of(ms, "avg_cpu_millicores")
             total_mem == total_of(ms, "avg_memory_mb")
             mx_cpu == MaxField(ms, "max_cpu_millicores")
             mx_mem == MaxField(ms, "max_memory_mb")
         IN /\ pod_asked' = IF cpu.raised THEN <<"cpu">> ELSE <<"cpu", "mem">>
            /\ pod_failed' = CASE cpu.raised -> "cpu" [] mem.raised -> "mem" [] OTHER -> "none"
            /\ cpu_obtained' = cpu.items
            /\ cpu_results' = kept.cpu
            /\ mem_results' = kept.mem
            /\ pod_metrics' = ms
            /\ max_cpu' = mx_cpu
            /\ max_mem' = mx_mem
            /\ cumulative' = cumulative_of(total_cpu, total_mem, mx_cpu, mx_mem)
    /\ pod_pc' = "done"
    /\ UNCHANGED <<pc, exc, waitVars, k6Vars, rangeVars, evalVars, mainVars, reportVars>>

----------------------------------------------------------------------------
(* The backend's answers to a range query *)

\* a sample [ts, value] of a series: float(ts) gives t unless t_ok is FALSE,
\* float(value) gives v unless v_ok is FALSE
Sample(t, v) == [t |-> t, t_ok |-> TRUE, v |-> v, v_ok |-> TRUE]
BadTs(v) == [t |-> 0, t_ok |-> FALSE, v |-> v, v_ok |-> TRUE]
BadValue(t) == [t |-> t, t_ok |-> TRUE, v |-> 0, v_ok |-> FALSE]

\* the "values" of a series: two steps; a later step only; samples that do
\* not parse around one that does; a zero sample before a positive one
SampleLists ==
    { <<Sample(15, 1), Sample(30, 2)>>,
      <<Sample(30, 4)>>,
      <<BadTs(16), BadValue(15), Sample(15, 8)>>,
      <<Sample(15, 0), Sample(45, 1)>> }

\* the pod label of a series; an empty label is an absent one
SeriesLabels == {"http-echo-foo", ""}

RangeSeries == [pod : SeriesLabels, values : SampleLists]

\* custom_query_range raises or returns series
RangeAnswers == {[raised |-> r, series |-> ss] : r \in {FALSE}, ss \in SeqsUpTo(RangeSeries, MaxSeries)}
                    \cup {[raised |-> TRUE, series |-> <<>>]}

Parses(x) == x.t_ok /\ x.v_ok

Point(x) == [timestamp |-> x.t, value |-> x.v]

----------------------------------------------------------------------------
(* MetricsCollector.collect_per_pod_time_series *)

\* lines 635-644: the points of one series
RECURSIVE points_of(_)
points_of(values) ==
    IF values = <<>> THEN <<>>
    ELSE IF Parses(Head(values)) THEN <<Point(Head(values))>> \o points_of(Tail(values))
    ELSE points_of(Tail(values))

\* line 642: by_timestamp[ts] = by_timestamp.get(ts, 0) + val
accumulate_BugOverwrite(by_ts, pt) ==
    [t \in DOMAIN by_ts \cup {pt.timestamp} |->
        IF t = pt.timestamp THEN pt.value ELSE by_ts[t]]

accumulate(by_ts, pt) ==
    [t \in DOMAIN by_ts \cup {pt.timestamp} |->
        IF t = pt.timestamp
        THEN (IF t \in DOMAIN by_ts THEN by_ts[t] ELSE 0) + pt.value
        ELSE by_ts[t]]

RECURSIVE accumulate_all(_, _)
accumulate_all(by_ts, pts) ==
    IF pts = <<>> THEN by_ts ELSE accumulate_all(accumulate(by_ts, Head(pts)), Tail(pts))

EmptyByTs == [t \in {} |-> 0]

\* lines 633-646 (CPU) and 657-670 (memory): the per-pod dict and the sums
\* by timestamp after the series of one answer
RECURSIVE parse_series(_, _)
parse_series(acc, series) ==
    IF series = <<>> THEN acc
    ELSE LET s == Head(series)
             name == IF s.pod = "" THEN "unknown" ELSE s.pod
             pts == points_of(s.values)
         IN parse_series(
                [pods |-> IF pts # <<>> THEN Put(acc.pods, name, pts) ELSE acc.pods,
                 by_ts |-> accumulate_all(acc.by_ts, pts)],
                Tail(series))

Min(S) == CHOOSE x \in S : \A y \in S : x <= y

\* the elements of a set of numbers in increasing order
RECURSIVE SortedSeq(_)
SortedSeq(S) == IF S = {} THEN <<>> ELSE <<Min(S)>> \o SortedSeq(S \ {Min(S)})

\* lines 649-652 and 673-676: sorted(by_timestamp.items()) as points
cumulative_points(by_ts) ==
    LET ts == SortedSeq(DOMAIN by_ts)
    IN [i \in 1..Len(ts) |-> [timestamp |-> ts[i], value |-> by_ts[ts[i]]]]

\* lines 613-679 with the CPU answer parsed as soon as it is there
per_pod_data_BugPartial(cpu, mem) ==
    IF cpu.raised THEN [cumulative_cpu |-> <<>>, cumulative_memory |-> <<>>,
                        per_pod_cpu |-> EmptyDict, per_pod_memory |-> EmptyDict]
    ELSE LET c == parse_series([pods |-> EmptyDict, by_ts |-> EmptyByTs], cpu.series)
             m == parse_series([pods |-> EmptyDict, by_ts |-> EmptyByTs], mem.series)
         IN [cumulative_cpu |-> cumulative_points(c.by_ts),
             cumulative_memory |-> cumulative_points(m.by_ts),
             per_pod_cpu |-> c.pods,
             per_pod_memory |-> m.pods]

EmptyPerPod == [cumulative_cpu |-> <<>>, cumulative_memory |-> <<>>,
                per_pod_cpu |-> EmptyDict, per_pod_memory |-> EmptyDict]

\* lines 608-691: PerPodTimeSeriesData from the two answers; everything
\* stays empty when a query raised
per_pod_data(cpu, mem) ==
    IF cpu.raised \/ mem.raised THEN EmptyPerPod
    ELSE LET c == parse_series([pods |-> EmptyDict, by_ts |-> EmptyByTs], cpu.series)
             m == parse_series([pods |-> EmptyDict, by_ts |-> EmptyByTs], mem.series)
         IN [cumulative_cpu |-> cumulative_points(c.by_ts),
             cumulative_memory |-> cumulative_points(m.by_ts),
             per_pod_cpu |-> c.pods,
             per_pod_memory |-> m.pods]

\* the None of get_k6_test_time_range
NoRange == [found |-> FALSE, start |-> 0, end |-> 0]

RangeInit ==
    /\ range_asked = <<>>
    /\ range_failed = "none"
    /\ cpu_result = <<>>
    /\ mem_result = <<>>
    /\ series_pc = "idle"
    /\ per_pod = EmptyPerPod
    /\ ts_pc = "idle"
    /\ time_series = [cpu_points |-> <<>>, memory_points |-> <<>>]
    /\ range_pc = "idle"
    /\ k6_result = <<>>
    /\ k6_time_range = NoRange

\* the two range queries of lines 615-628 (and 505-517): the memory query is
\* issued only when the CPU query returned
TwoRangeQueries(cpu, mem) ==
    /\ range_asked' = range_asked \o (IF cpu.raised THEN <<"cpu">> ELSE <<"cpu", "mem">>)
    /\ range_failed' = CASE cpu.raised -> "cpu" [] mem.raised -> "mem" [] OTHER -> "none"
    /\ cpu_result' = cpu.series
    /\ mem_result' = IF cpu.raised THEN <<>> ELSE mem.series

\* the whole of collect_per_pod_time_series
CollectPerPodSeries(A) ==
    /\ pc = "series" /\ series_pc = "idle"
    /\ \E cpu \in A : \E mem \in (IF cpu.raised THEN {cpu} ELSE A) :
         /\ TwoRangeQueries(cpu, mem)
         /\ per_pod' = per_pod_data(cpu, mem)
    /\ series_pc' = "done"
    /\ UNCHANGED <<pc, exc, waitVars, k6Vars, podVars, ts_pc, time_series, range_pc,
                   k6_result, k6_time_range, evalVars, mainVars, reportVars>>

----------------------------------------------------------------------------
(* MetricsCollector.collect_time_series *)

\* lines 520-525 and 528-533: the points of the first series of an answer
first_series_points(series) ==
    IF series = <<>> THEN <<>> ELSE points_of(Head(series).values)

\* lines 500-541
time_series_data(cpu, mem) ==
    IF cpu.raised \/ mem.raised THEN [cpu_points |-> <<>>, memory_points |-> <<>>]
    ELSE [cpu_points |-> first_series_points(cpu.series),
          memory_points |-> first_series_points(mem.series)]

\* the whole of collect_time_series
CollectTimeSeries(A) ==
    /\ pc = "time_series" /\ ts_pc = "idle"
    /\ \E cpu \in A : \E mem \in (IF cpu.raised THEN {cpu} ELSE A) :
         /\ TwoRangeQueries(cpu, mem)
         /\ time_series' = time_series_data(cpu, mem)
    /\ ts_pc' = "done"
    /\ UNCHANGED <<pc, exc, waitVars, k6Vars, podVars, series_pc, per_pod, range_pc,
                   k6_result, k6_time_range, evalVars, mainVars, reportVars>>

----------------------------------------------------------------------------
(* MetricsCollector.get_k6_test_time_range *)

\* line 566: float(val) > 0 of every sample, float(ts) of the samples kept;
\* a sample that does not parse raises ValueError
is_active_BugGe(v) == v >= 0

\* line 566: float(val) > 0
is_active(v) == v > 0

RECURSIVE active_times(_)
active_times(values) ==
    IF values = <<>> THEN [ok |-> TRUE, ts |-> {}]
    ELSE LET x == Head(values)
             rest == active_times(Tail(values))
         IN IF ~x.v_ok \/ (is_active(x.v) /\ ~x.t_ok) \/ ~rest.ok
            THEN [ok |-> FALSE, ts |-> {}]
            ELSE [ok |-> TRUE, ts |-> IF is_active(x.v) THEN {x.t} \cup rest.ts ELSE rest.ts]

Max(S) == CHOOSE x \in S : \A y \in S : x >= y

\* lines 549-578
test_time_range(answer) ==
    IF answer.raised \/ answer.series = <<>> THEN NoRange
    ELSE LET a == active_times(Head(answer.series).values)
         IN IF a.ok /\ a.ts # {}
            THEN [found |-> TRUE, start |-> Min(a.ts), end |-> Max(a.ts)]
            ELSE NoRange

\* the whole of get_k6_test_time_range
GetTimeRange(A) ==
    /\ pc = "time_range" /\ range_pc = "idle"
    /\ \E answer \in A :
         /\ range_asked' = Append(range_asked, "k6")
         /\ range_failed' = IF answer.raised THEN "k6" ELSE "none"
         /\ k6_result' = answer.series
         /\ k6_time_range' = test_time_range(answer)
    /\ range_pc' = "done"
    /\ UNCHANGED <<pc, exc, waitVars, k6Vars, podVars, cpu_result, mem_result, series_pc,
                   per_pod, ts_pc, time_series, evalVars, mainVars, reportVars>>

----------------------------------------------------------------------------
(* MetricsCollector._query_scalar, called on its own *)

QueryScalar(R) ==
    /\ pc = "scalar"
    /\ probes = 0
    /\ \E r \in R :
         /\ result' = query_scalar(r)
         /\ scalar_failed' = (r.kind = "raise")
    /\ probes' = 1
    /\ UNCHANGED <<pc, exc, max_attempts, attempt, wait_result, sleeps, nonpos, k6Vars,
                   podVars, rangeVars, evalVars, mainVars, reportVars>>

----------------------------------------------------------------------------
(* JUnitReportGenerator._evaluate_tests *)

\* lines 1092-1097
THRESHOLDS == [p95_latency_ms |-> Dec(500, 1), avg_latency_ms |-> Dec(200, 1),
               error_rate |-> Dec(1, 100), min_requests |-> 100]

\* line 1125: "true", "false" or "raise"
p95_passed_BugStrict(m) == PyLt(m.p95_latency_ms, THRESHOLDS.p95_latency_ms)

p95_passed(m) == PyLe(m.p95_latency_ms, THRESHOLDS.p95_latency_ms)

\* line 1134
error_rate_passed(m) == PyLe(m.error_rate, THRESHOLDS.error_rate)

\* line 1143: a comparison of ints
availability_passed(m) ==
    IF m.total_requests >= THRESHOLDS.min_requests THEN "true" ELSE "false"

\* line 1152
avg_passed(m) == PyLe(m.avg_latency_ms, THRESHOLDS.avg_latency_ms)

\* the message of a verdict: its text without the number, and the metric
\* that is formatted into it
Message(text, value) == [text |-> text, value |-> value]

TestResult(name, classname, passed, message, failure_type) ==
    [name |-> name, classname |-> classname, passed |-> (passed = "true"),
     message |-> message, failure_type |-> failure_type]

\* lines 1119-1158: [ok, list]; the list is built in order, and a
\* comparison that raises ends the call
evaluate_tests(m) ==
    LET a == p95_passed(m)
        b == error_rate_passed(m)
        c == availability_passed(m)
        d == avg_passed(m)
    IN IF "raise" \in {a, b, c, d} THEN [ok |-> FALSE, list |-> <<>>]
       ELSE [ok |-> TRUE,
             list |-> << TestResult("P95 Latency", "LoadTest.Performance", a,
                                    Message("P95 latency exceeds threshold", m.p95_latency_ms),
                                    "PerformanceError"),
                         TestResult("Error Rate", "LoadTest.Reliability", b,
                                    Message("Error rate exceeds threshold", m.error_rate),
                                    "ReliabilityError"),
                         TestResult("Service Availability", "LoadTest.Availability", c,
                                    Message("Insufficient requests completed",
                                            Dec(m.total_requests, 1)),
                                    "AvailabilityError"),
                         TestResult("Average Response Time", "LoadTest.Performance", d,
                                    Message("Average latency exceeds threshold", m.avg_latency_ms),
                                    "PerformanceWarning") >>]

EvalInit ==
    /\ eval_pc = "idle"
    /\ results = <<>>

\* the whole of _evaluate_tests on the K6Metrics collected
EvaluateTests ==
    /\ pc = "evaluate" /\ eval_pc = "idle"
    /\ LET e == evaluate_tests(k6)
       IN /\ results' = e.list
          /\ eval_pc' = IF e.ok THEN "done" ELSE "raised"
          /\ exc' = IF e.ok THEN exc ELSE "InvalidOperation"
    /\ UNCHANGED <<pc, waitVars, k6Vars, podVars, rangeVars, mainVars, reportVars>>

----------------------------------------------------------------------------
(* HTMLReportGenerator.generate and JUnitReportGenerator.generate *)

\* lines 1046-1047: [ok, p95, error]; a comparison that raises ends the call
html_status_of(m) ==
    LET a == PyLt(m.p95_latency_ms, Dec(500, 1))
        b == PyLt(m.error_rate, Dec(1, 100))
    IN IF "raise" \in {a, b} THEN [ok |-> FALSE, p95 |-> "none", error |-> "none"]
       ELSE [ok |-> TRUE, p95 |-> IF a = "true" THEN "success" ELSE "danger",
             error |-> IF b = "true" THEN "success" ELSE "danger"]

NoStatus == [p95 |-> "none", error |-> "none"]

\* the whole of HTMLReportGenerator(...).generate(...): loading the template
\* (line 1013) or writing the file (line 1078) can fail
GenerateHTML ==
    /\ pc = "html" /\ html_pc = "idle"
    /\ \E io_ok \in BOOLEAN :
         LET h == html_status_of(k6)
         IN /\ html_status' = IF io_ok /\ h.ok THEN [p95 |-> h.p95, error |-> h.error]
                               ELSE NoStatus
            /\ html_pc' = IF io_ok /\ h.ok THEN "done" ELSE "raised"
            /\ exc' = CASE ~io_ok -> "OSError" [] ~h.ok -> "InvalidOperation" [] OTHER -> exc
    /\ UNCHANGED <<pc, waitVars, k6Vars, podVars, rangeVars, evalVars, backend, format,
                   test_config, junit_pc, status, reportVars>>

failures_of_BugPassed(rs) == Len(SelectSeq(rs, LAMBDA r : r.passed))

\* line 1167: sum(1 for r in results if not r.passed)
failures_of(rs) == Len(SelectSeq(rs, LAMBDA r : ~r.passed))

\* lines 1210-1228: a testcase element, with a failure element inside when
\* the result did not pass
testcase_of(r) ==
    [name |-> r.name, classname |-> r.classname,
     failure |-> IF ~r.passed THEN <<[message |-> r.message, type |-> r.failure_type]>>
                 ELSE <<>>]

NoXml == [testsuites |-> [tests |-> 0, failures |-> 0],
          testsuite |-> [tests |-> 0, failures |-> 0], testcases |-> <<>>]

\* lines 1167-1228: the counts of the testsuites and testsuite elements and
\* the testcase elements, in the order of the results
write_junit_xml(rs) ==
    [testsuites |-> [tests |-> Len(rs), failures |-> failures_of(rs)],
     testsuite |-> [tests |-> Len(rs), failures |-> failures_of(rs)],
     testcases |-> [i \in 1..Len(rs) |-> testcase_of(rs[i])]]

\* lines 1108-1109 of JUnitReportGenerator.generate and _write_junit_xml:
\* writing the file can fail
WriteJUnit ==
    /\ pc = "evaluate" /\ eval_pc = "done" /\ junit_pc = "idle"
    /\ \E io_ok \in BOOLEAN :
         /\ junit_pc' = IF io_ok THEN "done" ELSE "raised"
         /\ junit_xml' = IF io_ok THEN write_junit_xml(results) ELSE junit_xml
         /\ exc' = IF io_ok THEN exc ELSE "OSError"
    /\ UNCHANGED <<pc, waitVars, k6Vars, podVars, rangeVars, evalVars, backend, format,
                   test_config, html_pc, html_status, status, durVars, planVars, graphVars, thVars>>

----------------------------------------------------------------------------
(* SVGGraphGenerator.generate_resource_graph; the values of a series are   *)
(* exact rationals, and the :.1f formatting of a coordinate is left out    *)

\* lines 703-710
WIDTH == 900
HEIGHT == 320
MARGIN_LEFT == 60
MARGIN_RIGHT == 20
MARGIN_TOP == 50
MARGIN_BOTTOM == 50
GRAPH_WIDTH == WIDTH - MARGIN_LEFT - MARGIN_RIGHT
GRAPH_HEIGHT == HEIGHT - MARGIN_TOP - MARGIN_BOTTOM

\* line 719
VU_BG_COLORS == <<"#fafafa", "#f5f5f5">>

TimeSeriesPoint(t, v) == [timestamp |-> t, value |-> v]

DecMul(a, b) == DecDiv(a.n * b.n, a.d * b.d)
DecSub(a, b) == DecAdd(a, Dec(-b.n, b.d))

\* value // step of a number that is not negative
FloorDiv(value, step) == value.n \div (value.d * step)

round_to_nearest_BugDown(value, step) == FloorDiv(value, step) * step

\* line 724: int((value + step - 1) // step * step)
round_to_nearest(value, step) == FloorDiv(DecAdd(value, Dec(step - 1, 1)), step) * step

\* lines 768-770: the values of the cumulative series, then of each pod's
RECURSIVE values_of(_)
values_of(points) ==
    IF points = <<>> THEN <<>> ELSE <<Head(points).value>> \o values_of(Tail(points))

RECURSIVE pod_values(_, _)
pod_values(data, names) ==
    IF names = <<>> THEN <<>>
    ELSE values_of(data[Head(names)]) \o pod_values(data, Tail(names))

all_values_of(series, data) ==
    values_of(series) \o pod_values(data, SortedNames(DOMAIN data))

\* max(all_values)
RECURSIVE MaxDec(_)
MaxDec(vs) ==
    IF Len(vs) = 1 THEN Head(vs)
    ELSE LET m == MaxDec(Tail(vs)) IN IF DecLt(Head(vs), m) THEN m ELSE Head(vs)

\* lines 771-774
y_max_of(all_values) ==
    LET max_value == IF all_values # <<>> THEN MaxDec(all_values) ELSE Dec(10, 1)
        y_max == round_to_nearest(DecMul(max_value, Dec(11, 10)), 10)
    IN IF y_max = 0 THEN 10 ELSE y_max

\* line 765
time_range_of(min_time, max_time) == IF max_time > min_time THEN max_time - min_time ELSE 1

\* line 778
to_svg_x(timestamp, min_time, time_range) ==
    DecAdd(Dec(MARGIN_LEFT, 1),
           DecMul(DecDiv(timestamp - min_time, time_range), Dec(GRAPH_WIDTH, 1)))

\* line 781
to_svg_y(value, y_max) ==
    DecSub(Dec(MARGIN_TOP + GRAPH_HEIGHT, 1),
           DecMul(DecMul(value, Dec(1, y_max)), Dec(GRAPH_HEIGHT, 1)))

stage_skipped_BugNever(stage, min_time, max_time) == FALSE

\* line 792
stage_skipped(stage, min_time, max_time) ==
    stage.start_timestamp >= max_time \/ stage.end_timestamp <= min_time

\* lines 795-797 of the stage at index i of enumerate(vu_stages)
band_of(i, stage, min_time, max_time) ==
    LET time_range == time_range_of(min_time, max_time)
        start_x == to_svg_x(Max({stage.start_timestamp, min_time}), min_time, time_range)
        end_x == to_svg_x(Min({stage.end_timestamp, max_time}), min_time, time_range)
    IN [index |-> i, start_x |-> start_x, end_x |-> end_x, width |-> DecSub(end_x, start_x),
        fill |-> VU_BG_COLORS[(i % Len(VU_BG_COLORS)) + 1], vus |-> stage.vus]

\* lines 791-808: the bands, in the order drawn
stage_bands(stages, min_time, max_time) ==
    LET drawn == SelectSeq([i \in 1..Len(stages) |-> i],
                           LAMBDA i : ~stage_skipped(stages[i], min_time, max_time))
    IN [k \in 1..Len(drawn) |-> band_of(drawn[k] - 1, stages[drawn[k]], min_time, max_time)]

\* lines 826-828 and 861-863: the coordinates of a path
path_of(points, min_time, time_range, y_max) ==
    [i \in 1..Len(points) |->
        [x |-> to_svg_x(points[i].timestamp, min_time, time_range),
         y |-> to_svg_y(points[i].value, y_max)]]

\* sub in str, of two sequences of characters
Contains(str, sub) ==
    \E i \in 1..(Len(str) - Len(sub) + 1) : SubSeq(str, i, i + Len(sub) - 1) = sub

\* the characters of a pod name
PodChars(name) ==
    CASE name = "http-echo-FOO" ->
           <<"h", "t", "t", "p", "-", "e", "c", "h", "o", "-", "F", "O", "O">>
      [] name = "http-echo-bar" ->
           <<"h", "t", "t", "p", "-", "e", "c", "h", "o", "-", "b", "a", "r">>
      [] name = "http-echo-foo" ->
           <<"h", "t", "t", "p", "-", "e", "c", "h", "o", "-", "f", "o", "o">>
      [] name = "http-echo-foobar" ->
           <<"h", "t", "t", "p", "-", "e", "c", "h", "o", "-", "f", "o", "o", "b", "a", "r">>
      [] OTHER -> <<"u", "n", "k", "n", "o", "w", "n">>

\* str.lower(), for the capitals of the pod names
Lower(str) ==
    [i \in 1..Len(str) |->
        CASE str[i] = "F" -> "f" [] str[i] = "O" -> "o" [] str[i] = "B" -> "b"
          [] str[i] = "A" -> "a" [] str[i] = "R" -> "r" [] OTHER -> str[i]]

\* lines 845-846: "foo" in p.lower()
has_marker(name, marker) == Contains(Lower(PodChars(name)), marker)

\* lines 845-847: the three lists of pod names, each sorted
foo_pods(data) == SortedNames({n \in DOMAIN data : has_marker(n, <<"f", "o", "o">>)})
bar_pods(data) == SortedNames({n \in DOMAIN data : has_marker(n, <<"b", "a", "r">>)})
other_pods(data) ==
    SortedNames({n \in DOMAIN data :
                    /\ ~has_marker(n, <<"f", "o", "o">>)
                    /\ ~has_marker(n, <<"b", "a", "r">>)})

\* lines 855-866: the lines stroked for one list of pods with one palette,
\* a pod without points being passed over
group_strokes(pods, palette, data) ==
    SelectSeq([i \in 1..Len(pods) |->
                  [pod |-> pods[i], palette |-> palette, color |-> (i - 1) % 3,
                   points |-> Len(data[pods[i]])]],
              LAMBDA x : x.points > 0)

\* lines 849-866: the lines stroked, in the order drawn
pod_strokes(data) ==
    group_strokes(foo_pods(data), "FOO_COLORS", data)
        \o group_strokes(bar_pods(data), "BAR_COLORS", data)
        \o group_strokes(other_pods(data), "FOO_COLORS", data)

NoGraph == [empty |-> TRUE, min_time |-> 0, max_time |-> 0, y_max |-> 0, bands |-> <<>>,
            path |-> <<>>, lines |-> <<>>, strokes |-> <<>>]

\* lines 758-866: the scales, the bands, the cumulative path and the line of
\* each pod
generate_resource_graph(series, data, stages) ==
    IF series = <<>> THEN NoGraph
    ELSE LET all_timestamps == {series[i].timestamp : i \in 1..Len(series)}
             min_time == Min(all_timestamps)
             max_time == Max(all_timestamps)
             time_range == time_range_of(min_time, max_time)
             y_max == y_max_of(all_values_of(series, data))
         IN [empty |-> FALSE, min_time |-> min_time, max_time |-> max_time, y_max |-> y_max,
             bands |-> stage_bands(stages, min_time, max_time),
             path |-> path_of(series, min_time, time_range, y_max),
             lines |-> [n \in DOMAIN data |-> path_of(data[n], min_time, time_range, y_max)],
             strokes |-> pod_strokes(data)]

\* lines 249-265 of parse_k6_script: the thresholds; a key is a sequence of
\* characters
canonical_kind_BugFailedFirst(key) ==
    IF Contains(key, <<"f", "a", "i", "l", "e", "d">>) THEN "error_rate"
    ELSE IF Contains(key, <<"d", "u", "r", "a", "t", "i", "o", "n">>) THEN "p95"
    ELSE "none"

\* lines 260-263: the name a key is stored under, "none" for a key that is
\* dropped
canonical_kind(key) ==
    IF Contains(key, <<"d", "u", "r", "a", "t", "i", "o", "n">>) THEN "p95"
    ELSE IF Contains(key, <<"f", "a", "i", "l", "e", "d">>) THEN "error_rate"
    ELSE "none"

NoThresholds == [k \in {} |-> ""]

\* lines 256-263: the matches in source order, each stored under its name
RECURSIVE store_thresholds(_, _)
store_thresholds(dict, entries) ==
    IF entries = <<>> THEN dict
    ELSE LET e == Head(entries)
             kind == canonical_kind(e.key)
         IN store_thresholds(IF kind = "none" THEN dict ELSE Put(dict, kind, e.value),
                             Tail(entries))

\* lines 249-263
extract_thresholds(block) ==
    IF block.present THEN store_thresholds(NoThresholds, block.entries) ELSE NoThresholds

ThIdle ==
    /\ th_pc = "idle"
    /\ th_block = [present |-> FALSE, entries |-> <<>>]
    /\ thresholds = NoThresholds

ExtractThresholds ==
    /\ pc = "thresholds" /\ th_pc = "idle"
    /\ thresholds' = extract_thresholds(th_block)
    /\ th_pc' = "done"
    /\ UNCHANGED <<pc, exc, waitVars, k6Vars, podVars, rangeVars, evalVars, mainVars, durVars,
                   planVars, graphVars, junit_xml, th_block>>

OutIdle ==
    /\ graph_pc = "idle"
    /\ graph_cumulative = <<>>
    /\ graph_per_pod = EmptyDict
    /\ graph_stages = <<>>
    /\ svg = NoGraph
    /\ junit_xml = NoXml
    /\ ThIdle

ReportIdle ==
    /\ DurIdle
    /\ PlanIdle
    /\ OutIdle

GenerateGraph ==
    /\ pc = "graph" /\ graph_pc = "idle"
    /\ svg' = generate_resource_graph(graph_cumulative, graph_per_pod, graph_stages)
    /\ graph_pc' = "done"
    /\ UNCHANGED <<pc, exc, waitVars, k6Vars, podVars, rangeVars, evalVars, mainVars, durVars,
                   planVars, graph_cumulative, graph_per_pod, graph_stages, junit_xml, thVars>>

----------------------------------------------------------------------------
(* main *)

\* line 327: the default of wait_for_k6_metrics, which main uses (line 1314)
DefaultMaxAttempts == 30

\* line 1283
Formats == {"html", "junit", "all"}

Backends == {"nodata", "down", "any"}

\* what the backend answers during a run of main: no data to every query,
\* an error to every query, or either no data or a value, query by query
MainScalar(b) ==
    CASE b = "nodata" -> {RespEmpty}
      [] b = "down" -> {RespRaise}
      [] OTHER -> {RespEmpty, RespNum(600, 1)}

MainProbe(b) == IF b = "any" THEN MainScalar(b) \cup {RespNaN} ELSE MainScalar(b)

MainInstant(b) ==
    CASE b = "nodata" -> {[raised |-> FALSE, items |-> <<>>]}
      [] b = "down" -> {[raised |-> TRUE, items |-> <<>>]}
      [] OTHER -> {[raised |-> FALSE, items |-> <<>>],
                   [raised |-> FALSE, items |-> <<[pod |-> "http-echo-foo", value |-> Dec(2, 1)]>>]}

MainRange(b) ==
    CASE b = "nodata" -> {[raised |-> FALSE, series |-> <<>>]}
      [] b = "down" -> {[raised |-> TRUE, series |-> <<>>]}
      [] OTHER -> {[raised |-> FALSE, series |-> <<>>],
                   [raised |-> FALSE,
                    series |-> <<[pod |-> "http-echo-foo",
                                  values |-> <<Sample(15, 1), Sample(30, 2)>>]>>]}

MainIdle ==
    /\ backend = "any"
    /\ format = "all"
    /\ test_config = "unset"
    /\ html_pc = "idle"
    /\ html_status = NoStatus
    /\ junit_pc = "idle"
    /\ status = -1

\* lines 1362-1364
Return1_BugZero ==
    /\ status' = 0
    /\ pc' = "returned"

Return1 ==
    /\ status' = 1
    /\ pc' = "returned"

\* the stage lists of the scripts main is run with
MainPlans ==
    {<<>>,
     <<K6Stage(<<"3", "0", "s">>, 20), K6Stage(<<"6", "0", "s">>, 50),
       K6Stage(<<"3", "0", "s">>, 20)>>}

\* lines 1306-1311: the script is absent, or is parsed, or reading it fails
MainParse ==
    /\ pc = "parse"
    /\ \E outcome \in {"none", "plan", "raise"} :
         IF outcome = "raise"
         THEN /\ Return1
              /\ exc' = "OSError"
              /\ UNCHANGED <<test_config, plan_pc, config>>
         ELSE /\ test_config' = outcome
              /\ IF outcome = "plan"
                 THEN /\ \E sl \in MainPlans : config' = k6_test_config(sl)
                      /\ plan_pc' = "parsed"
                 ELSE UNCHANGED <<plan_pc, config>>
              /\ pc' = "wait"
              /\ UNCHANGED <<exc, status>>
    /\ UNCHANGED <<waitVars, k6Vars, podVars, rangeVars, evalVars, backend, format, html_pc,
                   html_status, junit_pc, durVars, outVars, anchor, vu_stages>>

\* lines 1314-1316: the value returned by wait_for_k6_metrics is discarded
next_after_wait_BugAbort(returned) == IF returned = "False" THEN "returned" ELSE "k6"

next_after_wait(returned) == "k6"

\* wait_for_k6_metrics returns to main: its frame and its counters are gone
MainWaitReturned ==
    /\ pc = "wait" /\ wait_result \in {"True", "False"}
    /\ pc' = next_after_wait(wait_result)
    /\ attempt' = 0 /\ result' = None
    /\ probes' = 0 /\ sleeps' = 0 /\ nonpos' = 0
    /\ UNCHANGED <<exc, max_attempts, wait_result, scalar_failed, k6Vars, podVars, rangeVars,
                   evalVars, mainVars, reportVars>>

\* line 1316 -> 1317
MainK6Returned ==
    /\ pc = "k6" /\ k6_pc = "done"
    /\ pc' = "pod"
    /\ UNCHANGED <<exc, waitVars, k6Vars, podVars, rangeVars, evalVars, mainVars, reportVars>>

\* line 1317 -> 1318
MainPodReturned ==
    /\ pc = "pod" /\ pod_pc = "done"
    /\ pc' = "series"
    /\ UNCHANGED <<exc, waitVars, k6Vars, podVars, rangeVars, evalVars, mainVars, reportVars>>

\* lines 1344 and 1354: the first generator selected by args.format
first_generator(f) == IF f \in {"html", "all"} THEN "html" ELSE "evaluate"

next_after_series_BugAlways(tc, f) == "time_range"

\* line 1322: the test time range is asked for only with a test plan
next_after_series(tc, f) == IF tc = "plan" THEN "time_range" ELSE first_generator(f)

\* lines 1318-1324
MainSeriesReturned ==
    /\ pc = "series" /\ series_pc = "done"
    /\ pc' = next_after_series(test_config, format)
    /\ UNCHANGED <<exc, waitVars, k6Vars, podVars, rangeVars, evalVars, mainVars, reportVars>>

\* line 1337: max(p.timestamp for p in cumulative_cpu)
LatestTimestamp(points) == Max({points[i].timestamp : i \in 1..Len(points)})

resolve_anchor_BugEstimateFirst(range, cumulative_cpu, stages) ==
    IF cumulative_cpu # <<>>
    THEN [from |-> "estimated", t |-> LatestTimestamp(cumulative_cpu) - total_seconds_of(stages)]
    ELSE IF range.found THEN [from |-> "detected", t |-> range.start]
    ELSE NoAnchor

\* lines 1326-1339: the detected start, else the end of the cumulative CPU
\* series less the duration of the plan, else nothing
resolve_anchor(range, cumulative_cpu, stages) ==
    IF range.found THEN [from |-> "detected", t |-> range.start]
    ELSE IF cumulative_cpu # <<>>
    THEN [from |-> "estimated", t |-> LatestTimestamp(cumulative_cpu) - total_seconds_of(stages)]
    ELSE NoAnchor

\* lines 1324-1344: get_k6_test_time_range has returned; the VU stages are
\* aligned to the anchor, if there is one
MainRangeReturned ==
    /\ pc = "time_range" /\ range_pc = "done"
    /\ LET a == resolve_anchor(k6_time_range, per_pod.cumulative_cpu, config.stages)
       IN /\ anchor' = a
          /\ vu_stages' = IF a.from = "none" THEN <<>>
                          ELSE calculate_vu_stages(a.t, config.stages)
    /\ plan_pc' = "staged"
    /\ pc' = first_generator(format)
    /\ UNCHANGED <<exc, waitVars, k6Vars, podVars, rangeVars, evalVars, mainVars, durVars, outVars,
                   config>>

\* lines 1354-1360 after the HTML report
exit_status_BugFailures(rs) == IF failures_of(rs) > 0 THEN 1 ELSE 0

\* line 1360: return 0, whatever the results of the evaluation
exit_status(rs) == 0

MainHtmlReturned ==
    /\ pc = "html" /\ html_pc = "done"
    /\ IF format \in {"junit", "all"}
       THEN pc' = "evaluate" /\ UNCHANGED status
       ELSE pc' = "returned" /\ status' = exit_status(results)
    /\ UNCHANGED <<exc, waitVars, k6Vars, podVars, rangeVars, evalVars, backend, format,
                   test_config, html_pc, html_status, junit_pc, reportVars>>

\* lines 1357-1360 after the JUnit report
MainJUnitReturned ==
    /\ pc = "evaluate" /\ junit_pc = "done"
    /\ pc' = "returned" /\ status' = exit_status(results)
    /\ UNCHANGED <<exc, waitVars, k6Vars, podVars, rangeVars, evalVars, backend, format,
                   test_config, html_pc, html_status, junit_pc, reportVars>>

\* lines 1362-1364: an exception of any step ends main with 1
MainCaught ==
    /\ \/ pc = "wait" /\ wait_result = "raised"
       \/ pc = "k6" /\ k6_pc = "raised"
       \/ pc = "html" /\ html_pc = "raised"
       \/ pc = "evaluate" /\ (eval_pc = "raised" \/ junit_pc = "raised")
    /\ Return1
    /\ UNCHANGED <<exc, waitVars, k6Vars, podVars, rangeVars, evalVars, backend, format,
                   test_config, html_pc, html_status, junit_pc, reportVars>>

Init ==
    /\ pc = "parse"
    /\ exc = "none"
    /\ max_attempts = DefaultMaxAttempts
    /\ WaitInit
    /\ K6Init
    /\ PodInit
    /\ RangeInit
    /\ EvalInit
    /\ backend \in Backends
    /\ format \in Formats
    /\ test_config = "unset"
    /\ html_pc = "idle"
    /\ html_status = NoStatus
    /\ junit_pc = "idle"
    /\ status = -1
    /\ ReportIdle

Next ==
    \/ MainParse
    \/ WaitAttempt(MainProbe(backend))
    \/ WaitExhausted
    \/ MainWaitReturned
    \/ K6Step(MainScalar(backend))
    \/ MainK6Returned
    \/ CollectPod(MainInstant(backend))
    \/ MainPodReturned
    \/ CollectPerPodSeries(MainRange(backend))
    \/ MainSeriesReturned
    \/ GetTimeRange(MainRange(backend))
    \/ MainRangeReturned
    \/ GenerateHTML
    \/ MainHtmlReturned
    \/ EvaluateTests
    \/ WriteJUnit
    \/ MainJUnitReturned
    \/ MainCaught

Spec == Init /\ [][Next]_vars

----------------------------------------------------------------------------
(* main against a backend that answers each kind of query in one way:    *)
(* no data, an error, a value, or a value after a while to the probe and  *)
(* NaN to the scalar queries; the calls made always return                *)

RunBackends == {"nodata", "down", "up", "late"}

RunScalar(b) ==
    CASE b = "nodata" -> {RespEmpty}
      [] b = "down" -> {RespRaise}
      [] b = "up" -> {RespNum(600, 1)}
      [] OTHER -> {RespNaN}

RunProbe(b) == IF b = "late" THEN {RespEmpty, RespNum(600, 1)} ELSE RunScalar(b)

RunInstant(b) ==
    CASE b = "nodata" -> {[raised |-> FALSE, items |-> <<>>]}
      [] b = "down" -> {[raised |-> TRUE, items |-> <<>>]}
      [] OTHER -> {[raised |-> FALSE, items |-> <<[pod |-> "http-echo-foo", value |-> Dec(2, 1)]>>]}

RunRange(b) ==
    CASE b = "nodata" -> {[raised |-> FALSE, series |-> <<>>]}
      [] b = "down" -> {[raised |-> TRUE, series |-> <<>>]}
      [] OTHER -> {[raised |-> FALSE,
                    series |-> <<[pod |-> "http-echo-foo",
                                  values |-> <<Sample(15, 1), Sample(30, 2)>>]>>]}

InitRun ==
    /\ pc = "parse"
    /\ exc = "none"
    /\ max_attempts = DefaultMaxAttempts
    /\ WaitInit
    /\ K6Init
    /\ PodInit
    /\ RangeInit
    /\ EvalInit
    /\ backend \in RunBackends
    /\ format \in Formats
    /\ test_config = "unset"
    /\ html_pc = "idle"
    /\ html_status = NoStatus
    /\ junit_pc = "idle"
    /\ status = -1
    /\ ReportIdle

NextRun ==
    \/ MainParse
    \/ WaitAttempt(RunProbe(backend))
    \/ WaitExhausted
    \/ MainWaitReturned
    \/ K6Step(RunScalar(backend))
    \/ MainK6Returned
    \/ CollectPod(RunInstant(backend))
    \/ MainPodReturned
    \/ CollectPerPodSeries(RunRange(backend))
    \/ MainSeriesReturned
    \/ GetTimeRange(RunRange(backend))
    \/ MainRangeReturned
    \/ GenerateHTML
    \/ MainHtmlReturned
    \/ EvaluateTests
    \/ WriteJUnit
    \/ MainJUnitReturned
    \/ MainCaught

\* the variables that tell where main and the operation it has called are
progressVars == <<pc, waitVars, k6Vars, podVars, rangeVars, evalVars, html_pc, junit_pc>>

\* every call made returns: a step that can be taken is taken
SpecRun == InitRun /\ [][NextRun]_vars /\ WF_progressVars(NextRun)

----------------------------------------------------------------------------
(* The readiness probe on its own, for every max_attempts up to the bound *)

InitWait ==
    /\ pc = "wait"
    /\ exc = "none"
    /\ max_attempts \in 0..MaxAttemptsBound
    /\ WaitInit
    /\ K6Init
    /\ PodInit
    /\ RangeInit
    /\ EvalInit
    /\ MainIdle
    /\ ReportIdle

NextWait ==
    \/ WaitAttempt(ProbeResponses)
    \/ WaitExhausted

SpecWait == InitWait /\ [][NextWait]_vars

SpecWaitFair == SpecWait /\ WF_vars(NextWait)

----------------------------------------------------------------------------
(* collect_k6_metrics on its own, for every answer to each of its queries *)

InitK6 ==
    /\ pc = "k6"
    /\ exc = "none"
    /\ max_attempts = 0
    /\ WaitInit
    /\ K6Init
    /\ PodInit
    /\ RangeInit
    /\ EvalInit
    /\ MainIdle
    /\ ReportIdle

NextK6 == K6Step(ScalarResponses)

SpecK6 == InitK6 /\ [][NextK6]_vars

----------------------------------------------------------------------------
(* One collector operation on its own, for every answer of the backend *)

CollectorOps == {"scalar", "pod", "series", "time_series", "time_range"}

InitCollector ==
    /\ pc \in CollectorOps
    /\ exc = "none"
    /\ max_attempts = 0
    /\ WaitInit
    /\ K6Init
    /\ PodInit
    /\ RangeInit
    /\ EvalInit
    /\ MainIdle
    /\ ReportIdle

NextCollector ==
    \/ QueryScalar(ScalarResponses)
    \/ CollectPod(InstantAnswers)
    \/ CollectPerPodSeries(RangeAnswers)
    \/ CollectTimeSeries(RangeAnswers)
    \/ GetTimeRange(RangeAnswers)

SpecCollector == InitCollector /\ [][NextCollector]_vars

----------------------------------------------------------------------------
(* _evaluate_tests on its own, for K6Metrics around the four bounds *)

EvalP95 == {Zero, Dec(450, 1), Dec(500, 1), Dec(1001, 2), Dec(600, 1), NaN}
EvalAvg == {Dec(150, 1), Dec(200, 1), Dec(401, 2), NaN}
EvalErrorRate == {Zero, Dec(1, 200), Dec(1, 100), Dec(1, 99), Dec(2, 1)}
EvalRequests == {0, 50, 99, 100, 1000}

EvalMetrics ==
    {[K6Fields EXCEPT !.p95_latency_ms = a, !.avg_latency_ms = b, !.error_rate = c,
                      !.total_requests = d] :
        a \in EvalP95, b \in EvalAvg, c \in EvalErrorRate, d \in EvalRequests}

InitEval ==
    /\ pc = "evaluate"
    /\ exc = "none"
    /\ max_attempts = 0
    /\ WaitInit
    /\ k6_pc = "done"
    /\ k6 \in EvalMetrics
    /\ k6_asked = <<>>
    /\ p95_primary = Zero
    /\ p95_secondary = None
    /\ PodInit
    /\ RangeInit
    /\ EvalInit
    /\ MainIdle
    /\ ReportIdle

NextEval ==
    \/ EvaluateTests
    \/ WriteJUnit

SpecEval == InitEval /\ [][NextEval]_vars

----------------------------------------------------------------------------
(* The duration conversions on their own: format, then parse *)

InitDuration ==
    /\ pc = "duration"
    /\ exc = "none"
    /\ max_attempts = 0
    /\ WaitInit
    /\ K6Init
    /\ PodInit
    /\ RangeInit
    /\ EvalInit
    /\ MainIdle
    /\ dur_pc = "idle"
    /\ seconds \in 0..MaxSeconds
    /\ duration_str = <<>>
    /\ parsed = 0
    /\ PlanIdle
    /\ OutIdle

NextDuration ==
    \/ FormatDuration
    \/ ParseDuration

SpecDuration == InitDuration /\ [][NextDuration]_vars

----------------------------------------------------------------------------
(* parse_k6_script, then calculate_vu_stages from a given start time *)

StartTimes == {0, 1000}

InitPlan ==
    /\ pc = "plan"
    /\ exc = "none"
    /\ max_attempts = 0
    /\ WaitInit
    /\ K6Init
    /\ PodInit
    /\ RangeInit
    /\ EvalInit
    /\ MainIdle
    /\ ReportIdle

NextPlan ==
    \/ ParseScript(StageLists)
    \/ CalculateStages(StartTimes)

SpecPlan == InitPlan /\ [][NextPlan]_vars

----------------------------------------------------------------------------
(* generate_resource_graph on its own, for the series of up to two pods    *)
(* and the windows of a plan from several start times                      *)

GraphValues == {Zero, Dec(1, 2), Dec(19, 2), Dec(10, 1)}

\* the points of one pod: at the first step, at the second, or at both
GraphSeries ==
    {<<TimeSeriesPoint(15, v)>> : v \in GraphValues}
        \cup {<<TimeSeriesPoint(30, Dec(10, 1))>>}
        \cup {<<TimeSeriesPoint(15, v), TimeSeriesPoint(30, w)>> : v, w \in GraphValues}

GraphPods == {"http-echo-bar", "http-echo-foo"}

\* pods of every kind of name, each with the same two points
GraphNames == {"http-echo-FOO", "http-echo-bar", "http-echo-foo", "http-echo-foobar", "unknown"}

GraphData ==
    UNION {[P -> GraphSeries] : P \in SUBSET GraphPods}
        \cup UNION {[P -> {<<TimeSeriesPoint(15, Dec(1, 2)), TimeSeriesPoint(30, Dec(10, 1))>>}] :
                       P \in SUBSET GraphNames}

\* lines 642 and 666: the sum over the pods of the values at one timestamp
RECURSIVE sum_at(_, _, _)
sum_at(data, names, t) ==
    IF names = <<>> THEN Zero
    ELSE LET points == data[Head(names)]
             at == {i \in 1..Len(points) : points[i].timestamp = t}
             rest == sum_at(data, Tail(names), t)
         IN IF at = {} THEN rest ELSE DecAdd(points[CHOOSE i \in at : TRUE].value, rest)

\* lines 649-652: the cumulative series of the pods' series
cumulative_from(data) ==
    LET ts == SortedSeq(UNION {{data[n][i].timestamp : i \in 1..Len(data[n])} : n \in DOMAIN data})
    IN [i \in 1..Len(ts) |-> TimeSeriesPoint(ts[i], sum_at(data, SortedNames(DOMAIN data), ts[i]))]

GraphPlans ==
    {<<>>,
     <<K6Stage(<<"3", "0", "s">>, 20), K6Stage(<<"3", "0", "s">>, 50),
       K6Stage(<<"3", "0", "s">>, 20)>>,
     <<K6Stage(<<"3", "0", "s">>, 20), K6Stage(<<"6", "0", "s">>, 50),
       K6Stage(<<"3", "0", "s">>, 20)>>}

GraphAnchors == {-90, -30, 0, 15, 20, 30}

InitGraph ==
    /\ pc = "graph"
    /\ exc = "none"
    /\ max_attempts = 0
    /\ WaitInit
    /\ K6Init
    /\ PodInit
    /\ RangeInit
    /\ EvalInit
    /\ MainIdle
    /\ DurIdle
    /\ PlanIdle
    /\ graph_pc = "idle"
    /\ graph_per_pod \in GraphData
    /\ graph_cumulative = cumulative_from(graph_per_pod)
    /\ \E a \in GraphAnchors, sl \in GraphPlans : graph_stages = calculate_vu_stages(a, sl)
    /\ svg = NoGraph
    /\ junit_xml = NoXml
    /\ ThIdle

NextGraph == GenerateGraph

SpecGraph == InitGraph /\ [][NextGraph]_vars

----------------------------------------------------------------------------
(* The threshold extraction of parse_k6_script on its own, for every      *)
(* sequence of matched entries up to the bound                            *)

KeyDuration == <<"h", "t", "t", "p", "_", "r", "e", "q", "_", "d", "u", "r", "a", "t", "i", "o", "n">>
KeyFailed == <<"h", "t", "t", "p", "_", "r", "e", "q", "_", "f", "a", "i", "l", "e", "d">>
KeyBoth == <<"f", "a", "i", "l", "e", "d", "_", "d", "u", "r", "a", "t", "i", "o", "n">>
KeyChecks == <<"c", "h", "e", "c", "k", "s">>

ThresholdKeys == {KeyDuration, KeyFailed, KeyBoth, KeyChecks}
ThresholdValues == {"p(95)<500", "rate<0.01"}
ThresholdEntries == [key : ThresholdKeys, value : ThresholdValues]

ThresholdBlocks ==
    {[present |-> FALSE, entries |-> <<>>]}
        \cup {[present |-> TRUE, entries |-> es] : es \in SeqsUpTo(ThresholdEntries, MaxEntries)}

InitThresholds ==
    /\ pc = "thresholds"
    /\ exc = "none"
    /\ max_attempts = 0
    /\ WaitInit
    /\ K6Init
    /\ PodInit
    /\ RangeInit
    /\ EvalInit
    /\ MainIdle
    /\ DurIdle
    /\ PlanIdle
    /\ graph_pc = "idle"
    /\ graph_cumulative = <<>>
    /\ graph_per_pod = EmptyDict
    /\ graph_stages = <<>>
    /\ svg = NoGraph
    /\ junit_xml = NoXml
    /\ th_pc = "idle"
    /\ th_block \in ThresholdBlocks
    /\ thresholds = NoThresholds

NextThresholds == ExtractThresholds

SpecThresholds == InitThresholds /\ [][NextThresholds]_vars

----------------------------------------------------------------------------
(* The report generators of main and its return, lines 1344-1364, for     *)
(* K6Metrics around the four bounds                                       *)

InitReports ==
    /\ exc = "none"
    /\ max_attempts = DefaultMaxAttempts
    /\ WaitInit
    /\ k6_pc = "done"
    /\ k6 \in EvalMetrics
    /\ k6_asked = <<>>
    /\ p95_primary = Zero
    /\ p95_secondary = None
    /\ PodInit
    /\ RangeInit
    /\ EvalInit
    /\ backend = "any"
    /\ format \in Formats
    /\ pc = first_generator(format)
    /\ test_config = "none"
    /\ html_pc = "idle"
    /\ html_status = NoStatus
    /\ junit_pc = "idle"
    /\ status = -1
    /\ ReportIdle

NextReports ==
    \/ GenerateHTML
    \/ MainHtmlReturned
    \/ EvaluateTests
    \/ WriteJUnit
    \/ MainJUnitReturned
    \/ MainCaught

SpecReports == InitReports /\ [][NextReports]_vars

----------------------------------------------------------------------------
(* Claims *)

Asked(q) == \E i \in 1..Len(k6_asked) : k6_asked[i] = q

\* C1: what holds of the probe in every state
C1_ProbeState ==
    /\ probes <= max_attempts
    /\ probes = attempt
    /\ (wait_result = "running" => nonpos = probes /\ sleeps = probes)
    /\ (wait_result = "True" =>
          /\ result.kind = "num" /\ result.n > 0
          /\ nonpos = probes - 1
          /\ sleeps = probes - 1)
    /\ (wait_result = "False" => sleeps = max_attempts)
    /\ (wait_result # "running" =>
          (wait_result = "False" <=> (probes = max_attempts /\ nonpos = max_attempts)))

\* C1: wait_for_k6_metrics issues at most max_attempts queries, returns True
\* at the first attempt answered by a value > 0 without a further query or
\* sleep, returns False exactly when all max_attempts attempts were answered
\* by None or a value <= 0, and always terminates.
C1_ProbeContract == []C1_ProbeState /\ <>(wait_result # "running")

\* C1: the probe succeeded at its third attempt
C1_Witness == wait_result = "True" /\ probes = 3 /\ nonpos = 2 /\ sleeps = 2

\* C5: collect_k6_metrics never divides by zero; the error rate is exactly 0
\* when total_requests is 0, whatever failed_requests is, and
\* failed_requests / total_requests when total_requests > 0.
C5_ErrorRate ==
    /\ exc # "DivisionByZero"
    /\ (k6_pc = "done" /\ k6.total_requests = 0 => k6.error_rate = Zero)
    /\ (k6_pc = "done" /\ k6.total_requests > 0 =>
          /\ k6.error_rate.kind = "num"
          /\ k6.error_rate.n * k6.total_requests = k6.failed_requests * k6.error_rate.d)

\* C5: a snapshot with no requests and two failed requests
C5_Witness == k6_pc = "done" /\ k6.total_requests = 0 /\ k6.failed_requests = 2

NumericSnapshot ==
    \A f \in {"request_rate", "p95_latency_ms", "avg_latency_ms", "min_latency_ms",
              "max_latency_ms", "error_rate"} : k6[f].kind = "num"

\* C6: every K6Metrics returned by collect_k6_metrics has its error rate in
\* [0, 1] and every other field non-negative (stated of the snapshots whose
\* fields are all numbers).
C6_SnapshotRanges ==
    k6_pc = "done" /\ NumericSnapshot =>
        /\ k6.error_rate.n >= 0 /\ k6.error_rate.n <= k6.error_rate.d
        /\ k6.total_requests >= 0 /\ k6.failed_requests >= 0
        /\ \A f \in {"request_rate", "p95_latency_ms", "avg_latency_ms",
                      "min_latency_ms", "max_latency_ms"} : k6[f].n >= 0

\* C9: once the p95 value is settled, the fallback query was issued iff the
\* primary result (None replaced by 0) was exactly zero; a non-zero primary
\* is the reported p95, otherwise the fallback's value, or 0 if it has none.
C9_P95Fallback ==
    Asked("p95") /\ k6_pc # "p95_trend" =>
        LET zero == p95_primary.kind = "num" /\ p95_primary.n = 0 IN
        /\ (Asked("p95_trend") <=> zero)
        /\ (~zero => k6.p95_latency_ms = p95_primary)
        /\ (zero => k6.p95_latency_ms = IF p95_secondary = None THEN Zero ELSE p95_secondary)

\* C9: the primary gave no data and the fallback gave 2
C9_Witness ==
    /\ k6_pc = "done" /\ Asked("p95_trend")
    /\ p95_primary = Zero /\ k6.p95_latency_ms = Dec(2, 1)

PodNamesIn(items) == {pod_name_of(items[i]) : i \in 1..Len(items)}

ValuesOf(items, name) == {items[i].value : i \in {j \in 1..Len(items) : pod_name_of(items[j]) = name}}

RECURSIVE SumOver(_, _)
SumOver(ms, field) ==
    IF ms = <<>> THEN Zero
    ELSE DecAdd(SumOver(SubSeq(ms, 1, Len(ms) - 1), field), ms[Len(ms)][field])

\* C7: the cumulative avg CPU and avg memory are the sums of the per-pod avg
\* values, the cumulative max fields are those same sums, and all four are 0
\* when no pod is returned.
C7_CumulativeSums ==
    pod_pc = "done" =>
        /\ cumulative.avg_cpu_millicores = SumOver(pod_metrics, "avg_cpu_millicores")
        /\ cumulative.avg_memory_mb = SumOver(pod_metrics, "avg_memory_mb")
        /\ cumulative.max_cpu_millicores = cumulative.avg_cpu_millicores
        /\ cumulative.max_memory_mb = cumulative.avg_memory_mb
        /\ (pod_metrics = <<>> =>
              cumulative = [avg_cpu_millicores |-> Zero, max_cpu_millicores |-> Zero,
                            avg_memory_mb |-> Zero, max_memory_mb |-> Zero])

\* C7: two pods, whose CPU sum is not the largest per-pod CPU
C7_Witness ==
    /\ pod_pc = "done" /\ Len(pod_metrics) = 2
    /\ cumulative.max_cpu_millicores # max_cpu
    /\ cumulative.max_cpu_millicores = Dec(5, 2)

\* C8: collect_pod_metrics returns exactly one entry per pod name of either
\* answer; a pod named only by the CPU answer has memory 0, one named only
\* by the memory answer has CPU 0, otherwise the values are values the
\* answers give that pod; avg and max of the same metric are equal.
C8_MergeByPod ==
    pod_pc = "done" =>
        LET names == PodNamesIn(cpu_results) \cup PodNamesIn(mem_results) IN
        /\ {pod_metrics[i].pod_name : i \in 1..Len(pod_metrics)} = names
        /\ Len(pod_metrics) = Cardinality(names)
        /\ \A i \in 1..Len(pod_metrics) :
             LET m == pod_metrics[i] IN
             /\ m.avg_cpu_millicores = m.max_cpu_millicores
             /\ m.avg_memory_mb = m.max_memory_mb
             /\ IF m.pod_name \in PodNamesIn(cpu_results)
                THEN m.avg_cpu_millicores \in ValuesOf(cpu_results, m.pod_name)
                ELSE m.avg_cpu_millicores = Zero
             /\ IF m.pod_name \in PodNamesIn(mem_results)
                THEN m.avg_memory_mb \in ValuesOf(mem_results, m.pod_name)
                ELSE m.avg_memory_mb = Zero

\* C8: one pod only in the CPU answer, one only in the memory answer and
\* one in both
C8_Witness ==
    /\ pod_pc = "done" /\ Len(pod_metrics) = 3
    /\ PodNamesIn(cpu_results) \ PodNamesIn(mem_results) # {}
    /\ PodNamesIn(mem_results) \ PodNamesIn(cpu_results) # {}
    /\ PodNamesIn(mem_results) \cap PodNamesIn(cpu_results) # {}

\* C3: a query the backend raises on never escapes the collector:
\* _query_scalar returns None, collect_per_pod_time_series and
\* collect_time_series return empty series, get_k6_test_time_range returns
\* None, collect_pod_metrics returns no pod and zero cumulative values.
C3_NoFailureEscapes ==
    /\ exc = "none"
    /\ (pc = "scalar" /\ probes = 1 /\ scalar_failed => result = None)
    /\ (pod_pc = "done" /\ pod_failed # "none" =>
          /\ pod_metrics = <<>>
          /\ cumulative = [avg_cpu_millicores |-> Zero, max_cpu_millicores |-> Zero,
                            avg_memory_mb |-> Zero, max_memory_mb |-> Zero])
    /\ (series_pc = "done" /\ range_failed # "none" =>
          /\ per_pod.cumulative_cpu = <<>> /\ per_pod.cumulative_memory = <<>>
          /\ DOMAIN per_pod.per_pod_cpu = {} /\ DOMAIN per_pod.per_pod_memory = {})
    /\ (ts_pc = "done" /\ range_failed # "none" =>
          time_series.cpu_points = <<>> /\ time_series.memory_points = <<>>)
    /\ (range_pc = "done" /\ range_failed # "none" => ~k6_time_range.found)

\* C3: the memory range query raised after the CPU query had returned series
C3_Witness ==
    /\ series_pc = "done" /\ range_failed = "mem"
    /\ range_asked = <<"cpu", "mem">> /\ Len(cpu_result) = 2

\* the positions <<i, j>> of the samples of an answer that parse
ParsedAt(series) ==
    UNION {{<<i, j>> : j \in {k \in 1..Len(series[i].values) :
                                 series[i].values[k].t_ok /\ series[i].values[k].v_ok}}
           : i \in 1..Len(series)}

RECURSIVE SumSamples(_, _)
SumSamples(series, I) ==
    IF I = {} THEN 0
    ELSE LET q == CHOOSE q \in I : TRUE
         IN series[q[1]].values[q[2]].v + SumSamples(series, I \ {q})

\* the parsed samples of one series, in order, as points
ParsedPoints(values) ==
    LET kept == SelectSeq(values, LAMBDA x : x.t_ok /\ x.v_ok)
    IN [i \in 1..Len(kept) |-> [timestamp |-> kept[i].t, value |-> kept[i].v]]

\* the cumulative series cum and the per-pod dict pods agree with answer
CumulativeOf(series, cum, pods) ==
    LET I == ParsedAt(series) IN
    /\ {cum[i].timestamp : i \in 1..Len(cum)} = {series[q[1]].values[q[2]].t : q \in I}
    /\ \A i \in 1..Len(cum) - 1 : cum[i].timestamp < cum[i + 1].timestamp
    /\ \A i \in 1..Len(cum) :
         cum[i].value =
            SumSamples(series, {q \in I : series[q[1]].values[q[2]].t = cum[i].timestamp})
    /\ \A name \in DOMAIN pods :
         \E i \in 1..Len(series) :
            /\ name = (IF series[i].pod = "" THEN "unknown" ELSE series[i].pod)
            /\ pods[name] = ParsedPoints(series[i].values)

\* C10: the cumulative CPU (and memory) series of collect_per_pod_time_series
\* has one point per timestamp of a parsed sample, in strictly increasing
\* order, valued by the sum of the parsed samples at that timestamp; a sample
\* that does not parse is in neither the per-pod nor the cumulative series.
C10_CumulativeSeries ==
    series_pc = "done" /\ range_failed = "none" =>
        /\ CumulativeOf(cpu_result, per_pod.cumulative_cpu, per_pod.per_pod_cpu)
        /\ CumulativeOf(mem_result, per_pod.cumulative_memory, per_pod.per_pod_memory)

\* C10: two CPU series share the timestamp 15 and one of them has samples
\* that do not parse
C10_Witness ==
    /\ series_pc = "done" /\ range_failed = "none"
    /\ per_pod.cumulative_cpu =
          <<[timestamp |-> 15, value |-> 9], [timestamp |-> 30, value |-> 2]>>
    /\ Len(cpu_result) = 2
    /\ \E i \in 1..2 : \E j \in 1..Len(cpu_result[i].values) : ~cpu_result[i].values[j].t_ok

Verdict(list, name) == (CHOOSE r \in {list[i] : i \in 1..Len(list)} : r.name = name).passed

\* C2: the P95 Latency verdict passes iff p95_latency_ms <= 500, Average
\* Response Time iff avg_latency_ms <= 200, Error Rate iff error_rate <= 0.01
\* and Service Availability iff total_requests >= 100; a verdict is the same
\* for any two K6Metrics that agree on its own metric.
C2_Verdicts ==
    eval_pc = "done" =>
        /\ [i \in 1..Len(results) |-> results[i].name] =
              <<"P95 Latency", "Error Rate", "Service Availability", "Average Response Time">>
        /\ (Verdict(results, "P95 Latency") <=>
              k6.p95_latency_ms.n <= 500 * k6.p95_latency_ms.d)
        /\ (Verdict(results, "Average Response Time") <=>
              k6.avg_latency_ms.n <= 200 * k6.avg_latency_ms.d)
        /\ (Verdict(results, "Error Rate") <=> 100 * k6.error_rate.n <= k6.error_rate.d)
        /\ (Verdict(results, "Service Availability") <=> k6.total_requests >= 100)
        /\ \A m \in EvalMetrics :
             LET e == evaluate_tests(m) IN
             e.ok =>
               /\ (m.p95_latency_ms = k6.p95_latency_ms =>
                     Verdict(e.list, "P95 Latency") = Verdict(results, "P95 Latency"))
               /\ (m.avg_latency_ms = k6.avg_latency_ms =>
                     Verdict(e.list, "Average Response Time") =
                        Verdict(results, "Average Response Time"))
               /\ (m.error_rate = k6.error_rate =>
                     Verdict(e.list, "Error Rate") = Verdict(results, "Error Rate"))
               /\ (m.total_requests = k6.total_requests =>
                     Verdict(e.list, "Service Availability") =
                        Verdict(results, "Service Availability"))

\* C2: every metric is exactly at its bound and every verdict passes
C2_Witness ==
    /\ eval_pc = "done"
    /\ k6.p95_latency_ms = Dec(500, 1) /\ k6.avg_latency_ms = Dec(200, 1)
    /\ k6.error_rate = Dec(1, 100) /\ k6.total_requests = 100
    /\ \A i \in 1..4 : results[i].passed

\* C4: when the readiness probe returns False main goes on to
\* collect_k6_metrics, collect_pod_metrics, collect_per_pod_time_series and
\* the report generators selected by the format; with a backend that answers
\* no data to every query the probe returns False and the metrics collected
\* are zero and empty.
C4_ProbeFalseContinues ==
    /\ (pc = "returned" /\ wait_result = "False" =>
          /\ k6_pc # "total"
          /\ (k6_pc = "done" =>
                /\ pod_pc = "done" /\ series_pc = "done"
                /\ (format \in {"html", "all"} => html_pc # "idle")
                /\ (format \in {"junit", "all"} /\ html_pc # "raised" => eval_pc # "idle")))
    /\ (pc = "returned" /\ wait_result = "False" /\ status = 0 =>
          /\ (format \in {"html", "all"} => html_pc = "done")
          /\ (format \in {"junit", "all"} => eval_pc = "done" /\ junit_pc = "done"))
    /\ (backend = "nodata" /\ pc \notin {"parse", "wait"} /\ exc = "none" =>
          wait_result = "False")
    /\ (backend = "nodata" /\ pc = "returned" /\ exc = "none" =>
          /\ status = 0
          /\ k6 = K6Fields
          /\ pod_metrics = <<>>
          /\ cumulative = cumulative_of(Zero, Zero, Zero, Zero)
          /\ per_pod = EmptyPerPod)

\* C4: the probe was exhausted against a backend without data and main
\* returned 0 after both reports
C4_Witness ==
    /\ pc = "returned" /\ status = 0
    /\ backend = "nodata" /\ wait_result = "False"
    /\ format = "all" /\ html_pc = "done" /\ junit_pc = "done"
    /\ k6_pc = "done" /\ pod_pc = "done" /\ series_pc = "done"

\* the samples of the first series of the answer kept by get_k6_test_time_range
FirstSeries == IF k6_result = <<>> THEN <<>> ELSE k6_result[1].values

\* the timestamps of the samples of the first series whose value is > 0
PositiveTimes ==
    {FirstSeries[i].t : i \in {j \in 1..Len(FirstSeries) :
        FirstSeries[j].v_ok /\ FirstSeries[j].t_ok /\ FirstSeries[j].v > 0}}

\* a sample of the first series whose value, or whose timestamp when the
\* value is > 0, does not parse as a number
FirstSeriesUnparsed ==
    \E i \in 1..Len(FirstSeries) :
        \/ ~FirstSeries[i].v_ok
        \/ FirstSeries[i].v > 0 /\ ~FirstSeries[i].t_ok

\* C11 as stated: get_k6_test_time_range returns None when the result is
\* empty or the first series has no sample with value > 0, and otherwise the
\* least and the greatest timestamp of the samples with value > 0.
C11_Original ==
    range_pc = "done" /\ range_failed = "none" =>
        IF PositiveTimes = {} THEN ~k6_time_range.found
        ELSE /\ k6_time_range.found
             /\ k6_time_range.start = Min(PositiveTimes)
             /\ k6_time_range.end = Max(PositiveTimes)

\* C11 amended: get_k6_test_time_range returns None when the query fails,
\* the result is empty, a sample of the first series does not parse, or the
\* first series has no sample with value > 0; otherwise it returns the least
\* and the greatest timestamp of the samples with value > 0, start <= end,
\* and the window is bounded by samples with value > 0 only.
C11_TimeRange ==
    range_pc = "done" =>
        IF range_failed # "none" \/ FirstSeriesUnparsed \/ PositiveTimes = {}
        THEN ~k6_time_range.found
        ELSE /\ k6_time_range.found
             /\ k6_time_range.start = Min(PositiveTimes)
             /\ k6_time_range.end = Max(PositiveTimes)
             /\ k6_time_range.start <= k6_time_range.end
             /\ \A i \in 1..Len(FirstSeries) :
                  FirstSeries[i].v > 0 =>
                     /\ k6_time_range.start <= FirstSeries[i].t
                     /\ FirstSeries[i].t <= k6_time_range.end

\* C11: a sample of value 0 lies before the window returned
C11_Witness ==
    /\ range_pc = "done" /\ k6_time_range.found
    /\ \E i \in 1..Len(FirstSeries) :
         FirstSeries[i].v = 0 /\ FirstSeries[i].t < k6_time_range.start

Has(str, c) == \E i \in 1..Len(str) : str[i] = c

\* C16: parse_duration_to_seconds(seconds_to_duration_str(s)) = s for every
\* s >= 0; the string has minutes and seconds when both are non-zero, only
\* minutes when the seconds are zero, only seconds otherwise, and 0 is "0s".
C16_RoundTrip ==
    /\ (dur_pc = "parsed" => parsed = seconds)
    /\ (dur_pc # "idle" =>
          /\ (Has(duration_str, "m") <=> seconds >= 60)
          /\ (Has(duration_str, "s") <=> (seconds % 60 > 0 \/ seconds < 60))
          /\ duration_str[Len(duration_str)] = (IF Has(duration_str, "s") THEN "s" ELSE "m")
          /\ (seconds = 0 => duration_str = <<"0", "s">>)
          /\ (seconds = 150 => duration_str = <<"2", "m", "3", "0", "s">>)
          /\ (seconds = 600 => duration_str = <<"1", "0", "m">>))

\* C16: 2m30s is formatted and parsed back
C16_Witness ==
    dur_pc = "parsed" /\ seconds = 150 /\ parsed = 150 /\ Len(duration_str) = 5

\* the seconds of a stage duration written in minutes and seconds; another
\* unit counts for nothing
SecondsOf(d) ==
    CASE d = <<"3", "0", "s">> -> 30
      [] d = <<"6", "0", "s">> -> 60
      [] d = <<"2", "m", "3", "0", "s">> -> 150
      [] OTHER -> 0

RECURSIVE SumSeconds(_, _)
SumSeconds(stages, n) == IF n = 0 THEN 0 ELSE SumSeconds(stages, n - 1) + SecondsOf(stages[n].duration)

\* C17: total_duration is the formatted sum of the stage durations in
\* seconds and peak_vus the largest stage target; an empty stage list gives
\* "0s" and 0; stages (30s,20),(60s,50),(30s,20) give "2m" and 50.
C17_PlanTotals ==
    plan_pc # "idle" =>
        LET st == config.stages
            total == SumSeconds(st, Len(st))
        IN /\ parse_duration_to_seconds(config.total_duration) = total
           /\ (Has(config.total_duration, "m") <=> total >= 60)
           /\ (Has(config.total_duration, "s") <=> (total % 60 > 0 \/ total < 60))
           /\ \A i \in 1..Len(st) : st[i].target <= config.peak_vus
           /\ (st # <<>> => \E i \in 1..Len(st) : st[i].target = config.peak_vus)
           /\ (st = <<>> => config.peak_vus = 0 /\ config.total_duration = <<"0", "s">>)
           /\ (st = <<K6Stage(<<"3", "0", "s">>, 20), K6Stage(<<"6", "0", "s">>, 50),
                       K6Stage(<<"3", "0", "s">>, 20)>> =>
                 config.total_duration = <<"2", "m">> /\ config.peak_vus = 50)

\* C17: the plan of three stages with the largest target in the middle
C17_Witness ==
    /\ plan_pc = "parsed"
    /\ config.stages = <<K6Stage(<<"3", "0", "s">>, 20), K6Stage(<<"6", "0", "s">>, 50),
                          K6Stage(<<"3", "0", "s">>, 20)>>
    /\ config.total_duration = <<"2", "m">> /\ config.peak_vus = 50

\* C12: calculate_vu_stages returns one window per stage in order; the first
\* starts at the anchor, each ends its stage's duration after its start and
\* starts where the previous one ends, each has its stage's target as vus,
\* and the last ends at the anchor plus the plan's total duration.
C12_ContiguousWindows ==
    plan_pc = "staged" =>
        LET st == config.stages IN
        /\ Len(vu_stages) = Len(st)
        /\ \A i \in 1..Len(st) :
             /\ vu_stages[i].vus = st[i].target
             /\ vu_stages[i].end_timestamp =
                   vu_stages[i].start_timestamp + SecondsOf(st[i].duration)
             /\ vu_stages[i].start_timestamp =
                   (IF i = 1 THEN anchor.t ELSE vu_stages[i - 1].end_timestamp)
        /\ (st # <<>> =>
              vu_stages[Len(st)].end_timestamp =
                 anchor.t + parse_duration_to_seconds(config.total_duration))

\* C12: three windows from the anchor 1000, the last ending 240 s later
C12_Witness ==
    /\ plan_pc = "staged" /\ anchor.t = 1000 /\ Len(vu_stages) = 3
    /\ vu_stages[2].start_timestamp = 1030
    /\ vu_stages[3].end_timestamp = 1240

\* C13: with a test plan, the anchor is the detected start of the test
\* window; failing that, the latest timestamp of the cumulative CPU series
\* less the plan's duration, so that the last window ends at that timestamp;
\* failing that, or without a test plan, there is no window, and the reports
\* are generated all the same.
C13_AnchorResolution ==
    /\ (test_config = "plan" /\ plan_pc = "staged" =>
          LET st == config.stages
              cpu == per_pod.cumulative_cpu
          IN IF k6_time_range.found
             THEN /\ anchor = [from |-> "detected", t |-> k6_time_range.start]
                  /\ Len(vu_stages) = Len(st)
                  /\ (st # <<>> => vu_stages[1].start_timestamp = k6_time_range.start)
             ELSE IF cpu # <<>>
             THEN /\ anchor.from = "estimated"
                  /\ anchor.t = cpu[Len(cpu)].timestamp - SumSeconds(st, Len(st))
                  /\ Len(vu_stages) = Len(st)
                  /\ (st # <<>> =>
                        /\ vu_stages[1].start_timestamp = anchor.t
                        /\ vu_stages[Len(st)].end_timestamp = cpu[Len(cpu)].timestamp)
             ELSE anchor = NoAnchor /\ vu_stages = <<>>)
    /\ (test_config = "none" => vu_stages = <<>> /\ anchor = NoAnchor /\ range_pc = "idle")
    /\ (test_config = "plan" /\ pc \in {"html", "evaluate"} => plan_pc = "staged")
    /\ (pc \in {"html", "evaluate"} /\ format \in {"html", "all"} => html_pc # "idle" \/ pc = "html")
    /\ (pc = "returned" /\ status = 0 =>
          /\ (format \in {"html", "all"} => html_pc = "done")
          /\ (format \in {"junit", "all"} => junit_pc = "done"))

\* C13: no window was detected and the anchor was estimated from the
\* cumulative CPU series, whose last point is at 30
C13_Witness ==
    /\ pc = "returned" /\ status = 0 /\ test_config = "plan"
    /\ ~k6_time_range.found /\ anchor = [from |-> "estimated", t |-> -90]
    /\ Len(vu_stages) = 3 /\ vu_stages[3].end_timestamp = 30

\* the coordinates of every point drawn, of the cumulative path and of the
\* pods' lines
Rendered ==
    {svg.path[i] : i \in 1..Len(svg.path)}
        \cup UNION {{svg.lines[n][i] : i \in 1..Len(svg.lines[n])} : n \in DOMAIN svg.lines}

\* the values handed to generate_resource_graph
GraphInputValues ==
    {graph_cumulative[i].value : i \in 1..Len(graph_cumulative)}
        \cup UNION {{graph_per_pod[n][i].value : i \in 1..Len(graph_per_pod[n])} :
                    n \in DOMAIN graph_per_pod}

DrawnIndices == {svg.bands[k].index : k \in 1..Len(svg.bands)}

\* the x of a timestamp of the visible range, as a fraction of the plot width
PlotX(t) ==
    IF svg.max_time > svg.min_time
    THEN Dec(MARGIN_LEFT * (svg.max_time - svg.min_time) + (t - svg.min_time) * GRAPH_WIDTH,
             svg.max_time - svg.min_time)
    ELSE Dec(MARGIN_LEFT, 1)

Clamp(t) == IF t < svg.min_time THEN svg.min_time ELSE IF t > svg.max_time THEN svg.max_time ELSE t

\* each band drawn spans its window clamped to the visible range, lies in
\* the plot area, has a width that is not negative and the shade of its
\* index in the stage list modulo 2; bands are drawn in the order of the list
BandsWellFormed ==
    /\ \A k \in 1..Len(svg.bands) :
          LET b == svg.bands[k]
              stage == graph_stages[b.index + 1]
          IN /\ b.index \in 0..(Len(graph_stages) - 1)
             /\ DecEq(b.start_x, PlotX(Clamp(stage.start_timestamp)))
             /\ DecEq(b.end_x, PlotX(Clamp(stage.end_timestamp)))
             /\ DecLe(Dec(MARGIN_LEFT, 1), b.start_x)
             /\ DecLe(b.start_x, b.end_x)
             /\ DecLe(b.end_x, Dec(MARGIN_LEFT + GRAPH_WIDTH, 1))
             /\ b.width.n >= 0
             /\ DecEq(DecAdd(b.start_x, b.width), b.end_x)
             /\ b.fill = (IF b.index % 2 = 0 THEN "#fafafa" ELSE "#f5f5f5")
             /\ b.vus = stage.vus
    /\ \A k, l \in 1..Len(svg.bands) : k < l => svg.bands[k].index < svg.bands[l].index

\* C15 as stated: a window is drawn iff it is not fully outside the closed
\* range [min_time, max_time], and the bands are well formed.
C15_Original ==
    graph_pc = "done" /\ ~svg.empty =>
        /\ \A i \in 1..Len(graph_stages) :
              (i - 1) \in DrawnIndices <=>
                  ~(graph_stages[i].end_timestamp < svg.min_time
                      \/ graph_stages[i].start_timestamp > svg.max_time)
        /\ BandsWellFormed

\* C15: a window is drawn iff it starts before max_time and ends after
\* min_time of the cumulative series; a band drawn spans the window clamped
\* to [min_time, max_time], its edges are within MARGIN_LEFT and
\* MARGIN_LEFT + GRAPH_WIDTH, its width is not negative, and its shade is
\* that of the window's index in the stage list modulo 2, also after skipped
\* windows and when the series has a single timestamp.
C15_StageBands ==
    graph_pc = "done" /\ ~svg.empty =>
        /\ \A i \in 1..Len(graph_stages) :
              (i - 1) \in DrawnIndices <=>
                  /\ graph_stages[i].start_timestamp < svg.max_time
                  /\ graph_stages[i].end_timestamp > svg.min_time
        /\ BandsWellFormed

\* C15: the series has the single timestamp 15; of the windows [-30, 0],
\* [0, 30] and [30, 60] only the second is drawn, with the second shade and
\* a width of 0
C15_Witness ==
    /\ graph_pc = "done" /\ ~svg.empty
    /\ svg.min_time = 15 /\ svg.max_time = 15
    /\ Len(graph_stages) = 3 /\ graph_stages[1].end_timestamp = 0
    /\ Len(svg.bands) = 1
    /\ svg.bands[1].index = 1 /\ svg.bands[1].fill = "#f5f5f5" /\ svg.bands[1].width.n = 0

\* the order of the scalar queries of collect_k6_metrics, without and with
\* the second p95 query
K6Order == <<"total", "rate", "p95", "avg", "min", "max", "failed">>
K6OrderFallback == <<"total", "rate", "p95", "p95_trend", "avg", "min", "max", "failed">>

IsPrefix(a, b) == Len(a) <= Len(b) /\ \A i \in 1..Len(a) : a[i] = b[i]

Terminated == pc = "returned"

\* the queries asked so far are within the budget and in the order of the
\* run: no collection query while the probe runs, the scalar queries in
\* their order, CPU before memory, the test time range last and only with
\* a plan
QueriesInOrder ==
    /\ probes <= 30
    /\ (pc \in {"parse", "wait"} => k6_asked = <<>> /\ pod_asked = <<>> /\ range_asked = <<>>)
    /\ Len(k6_asked) <= 8
    /\ (IsPrefix(k6_asked, K6Order) \/ IsPrefix(k6_asked, K6OrderFallback))
    /\ (pod_asked # <<>> => k6_pc = "done")
    /\ IsPrefix(pod_asked, <<"cpu", "mem">>)
    /\ (range_asked # <<>> => pod_pc = "done")
    /\ (IsPrefix(range_asked, <<"cpu", "mem", "k6">>) \/ IsPrefix(range_asked, <<"cpu", "k6">>))
    /\ (range_pc = "done" => test_config = "plan" /\ series_pc = "done")
    /\ (test_config # "plan" => \A i \in 1..Len(range_asked) : range_asked[i] # "k6")

\* C18 as stated: the run terminates, the queries are within the budget and
\* in order, and each resource collection asks exactly two queries.
C18_Original ==
    /\ [](/\ QueriesInOrder
          /\ (pod_pc = "done" => Len(pod_asked) = 2)
          /\ (series_pc = "done" => IsPrefix(<<"cpu", "mem">>, range_asked)))
    /\ <>Terminated

\* C18: a run terminates; it asks at most 30 readiness probes, then at most
\* 8 scalar queries in a fixed order, then the CPU and the memory instant
\* query, then the CPU and the memory range query, the memory query of a
\* pair being left out when the CPU query raised, then at most one range
\* query for the test time range and only with a test plan; no collection
\* query is asked before the probe has finished.
C18_BoundedRun ==
    /\ [](/\ QueriesInOrder
          /\ (pod_pc = "done" => Len(pod_asked) = (IF pod_failed = "cpu" THEN 1 ELSE 2))
          /\ (series_pc = "done" =>
                IF range_failed = "cpu" /\ range_pc = "idle" THEN range_asked = <<"cpu">>
                ELSE IsPrefix(<<"cpu">>, range_asked)))
    /\ <>Terminated

\* C18: a run with a plan against a backend without data has exhausted the
\* probe and asked 8 scalar queries, 2 instant queries and 3 range queries
C18_Witness ==
    /\ pc = "returned" /\ status = 0 /\ wait_result = "False"
    /\ k6_asked = K6OrderFallback
    /\ pod_asked = <<"cpu", "mem">>
    /\ range_asked = <<"cpu", "mem", "k6">>

\* every step of the try block of main has completed
AllStepsComplete ==
    /\ test_config \in {"none", "plan"}
    /\ wait_result \in {"True", "False"}
    /\ k6_pc = "done" /\ pod_pc = "done" /\ series_pc = "done"
    /\ (test_config = "plan" => range_pc = "done" /\ plan_pc = "staged")
    /\ (format \in {"html", "all"} => html_pc = "done")
    /\ (format \in {"junit", "all"} => eval_pc = "done" /\ junit_pc = "done")

\* a step has raised and main has not caught the exception yet
Raising ==
    \/ pc = "wait" /\ wait_result = "raised"
    \/ pc = "k6" /\ k6_pc = "raised"
    \/ pc = "html" /\ html_pc = "raised"
    \/ pc = "evaluate" /\ (eval_pc = "raised" \/ junit_pc = "raised")

\* C19: main returns 1 exactly when an exception escaped a step of its try
\* block, and 0 when every step has completed; a script that is missing is
\* not an error, and the run goes on without a plan.
C19_ExitStatus ==
    /\ status \in {-1, 0, 1}
    /\ (pc = "returned" <=> status \in {0, 1})
    /\ (status = 1 <=> pc = "returned" /\ exc # "none")
    /\ (status = 0 <=> pc = "returned" /\ exc = "none")
    /\ (status = 0 => AllStepsComplete)
    /\ (exc # "none" /\ pc # "returned" => Raising)
    /\ (Raising => exc # "none")
    /\ (test_config = "none" /\ pc = "wait" /\ attempt = 0 => status = -1 /\ exc = "none")

\* C19: the script was missing and main has returned 0 with both reports
C19_Witness ==
    /\ pc = "returned" /\ status = 0 /\ test_config = "none" /\ format = "all"
    /\ html_pc = "done" /\ junit_pc = "done"

\* the indices of the results that did not pass
NotPassed == {i \in 1..Len(results) : ~results[i].passed}

\* C20: junit.xml has one testcase per result, in the order of the results;
\* a testcase has a failure element, with the result's message and
\* failure_type, iff the result did not pass; the failures attribute of the
\* testsuites and of the testsuite element is the number of results that did
\* not pass, and their tests attribute is the number of results.
C20_JUnitXml ==
    junit_pc = "done" =>
        /\ Len(junit_xml.testcases) = Len(results)
        /\ \A i \in 1..Len(results) :
              LET t == junit_xml.testcases[i]
              IN /\ t.name = results[i].name
                 /\ t.classname = results[i].classname
                 /\ (t.failure # <<>> <=> i \in NotPassed)
                 /\ (i \in NotPassed =>
                       t.failure = <<[message |-> results[i].message,
                                      type |-> results[i].failure_type]>>)
        /\ junit_xml.testsuites.failures = Cardinality(NotPassed)
        /\ junit_xml.testsuite.failures = Cardinality(NotPassed)
        /\ junit_xml.testsuites.tests = Len(results)
        /\ junit_xml.testsuite.tests = Len(results)

\* C20: the P95 Latency and Service Availability results failed, the other
\* two passed
C20_Witness ==
    /\ junit_pc = "done" /\ Len(results) = 4
    /\ NotPassed = {1, 3}
    /\ junit_xml.testsuite.failures = 2
    /\ junit_xml.testcases[1].failure # <<>> /\ junit_xml.testcases[2].failure = <<>>

\* the positions of the matched entries stored under a canonical kind
EntriesOfKind(kind) ==
    {i \in 1..Len(th_block.entries) :
        LET key == th_block.entries[i].key
        IN CASE kind = "p95" -> key \in {KeyDuration, KeyBoth}
             [] kind = "error_rate" -> key = KeyFailed
             [] OTHER -> FALSE}

\* C21: a matched key that contains "duration" is stored as "p95", any
\* other matched key that contains "failed" as "error_rate"; each kind keeps
\* the value of its last entry in source order, keys that contain neither
\* are dropped, and a script without a thresholds block gives an empty dict.
C21_Thresholds ==
    th_pc = "done" =>
        /\ DOMAIN thresholds \subseteq {"p95", "error_rate"}
        /\ \A kind \in {"p95", "error_rate"} :
              /\ kind \in DOMAIN thresholds <=> th_block.present /\ EntriesOfKind(kind) # {}
              /\ (kind \in DOMAIN thresholds =>
                    thresholds[kind] = th_block.entries[Max(EntriesOfKind(kind))].value)
        /\ (~th_block.present => thresholds = NoThresholds)

\* C21: a key with both markers, then a duration key and a key with neither:
\* only "p95" is stored, with the value of the second entry
C21_Witness ==
    /\ th_pc = "done"
    /\ Len(th_block.entries) = 3
    /\ th_block.entries[1] = [key |-> KeyBoth, value |-> "rate<0.01"]
    /\ th_block.entries[2] = [key |-> KeyDuration, value |-> "p(95)<500"]
    /\ th_block.entries[3].key = KeyChecks
    /\ DOMAIN thresholds = {"p95"} /\ thresholds["p95"] = "p(95)<500"

\* C22: the statuses of the HTML report agree with the verdicts of the
\* JUnit report computed from the same K6Metrics: p95_status is "success"
\* iff P95 Latency passed, error_status is "success" iff Error Rate passed.
C22_StatusAgreement ==
    html_pc = "done" /\ eval_pc = "done" =>
        /\ (html_status.p95 = "success" <=> Verdict(results, "P95 Latency"))
        /\ (html_status.error = "success" <=> Verdict(results, "Error Rate"))

\* C26: main returns 0 whenever no exception escaped, whatever the
\* verdicts; the verdicts that failed are in the reports only.
C26_StatusIgnoresVerdicts ==
    /\ (pc = "returned" /\ exc = "none" => status = 0)
    /\ (pc = "returned" /\ status = 1 => exc # "none")
    /\ (pc = "returned" /\ format \in {"junit", "all"} /\ exc = "none" =>
          /\ eval_pc = "done" /\ junit_pc = "done"
          /\ junit_xml.testsuite.failures = Cardinality(NotPassed))
    /\ (pc = "returned" /\ format \in {"html", "all"} /\ exc = "none" =>
          /\ html_pc = "done"
          /\ (html_status.p95 = "danger" <=> ~DecLt(k6.p95_latency_ms, Dec(500, 1)))
          /\ (html_status.error = "danger" <=> ~DecLt(k6.error_rate, Dec(1, 100))))

\* C26: the four verdicts failed and main has returned 0
C26_Witness ==
    /\ pc = "returned" /\ status = 0 /\ format = "all"
    /\ NotPassed = {1, 2, 3, 4}
    /\ junit_xml.testsuite.failures = 4
    /\ html_status = [p95 |-> "danger", error |-> "danger"]

\* C23: every pod with at least one point has exactly one line stroked, in
\* one palette group, whatever the names of the pods.
C23_OneLinePerPod ==
    graph_pc = "done" /\ ~svg.empty =>
        /\ \A n \in DOMAIN graph_per_pod :
              graph_per_pod[n] # <<>> =>
                  Cardinality({k \in 1..Len(svg.strokes) : svg.strokes[k].pod = n}) = 1
        /\ \A k \in 1..Len(svg.strokes) : svg.strokes[k].pod \in DOMAIN graph_per_pod

\* the sum of the values that the retained series of the per-pod dict hold at
\* timestamp t
RECURSIVE RetainedSum(_, _, _)
RetainedSum(pods, Q, t) ==
    IF Q = {} THEN 0
    ELSE LET q == CHOOSE x \in Q : TRUE
             pt == pods[q[1]][q[2]]
         IN (IF pt.timestamp = t THEN pt.value ELSE 0) + RetainedSum(pods, Q \ {q}, t)

RetainedAt(pods) == UNION {{<<n, i>> : i \in 1..Len(pods[n])} : n \in DOMAIN pods}

\* the cumulative series cum is the sum of the series kept in pods
SumOfRetained(cum, pods) ==
    \A i \in 1..Len(cum) :
        cum[i].value = RetainedSum(pods, RetainedAt(pods), cum[i].timestamp)

\* C24: in the result of collect_per_pod_time_series the cumulative value at
\* every timestamp is the sum of the values that the pods kept in the per-pod
\* dict have at that timestamp, also when two series name the same pod.
C24_CumulativeIsSumOfRetained ==
    series_pc = "done" =>
        /\ SumOfRetained(per_pod.cumulative_cpu, per_pod.per_pod_cpu)
        /\ SumOfRetained(per_pod.cumulative_memory, per_pod.per_pod_memory)

\* C27: collect_pod_metrics keeps both answers or none: when the CPU query
\* returned and the memory query raised, what the CPU query returned is
\* dropped, no pod is reported and the cumulative values are 0.
C27_AllOrNothing ==
    pod_pc = "done" /\ pod_failed = "mem" =>
        /\ pod_asked = <<"cpu", "mem">>
        /\ cpu_results = <<>> /\ mem_results = <<>>
        /\ pod_metrics = <<>>
        /\ cumulative = cumulative_of(Zero, Zero, Zero, Zero)
        /\ max_cpu = Zero /\ max_mem = Zero

\* C27: the CPU query returned a sample of a pod and the memory query raised
C27_Witness ==
    /\ pod_pc = "done" /\ pod_failed = "mem"
    /\ cpu_obtained # <<>>
    /\ pod_metrics = <<>>

\* C25: with a backend that has no data for any query the readiness probe
\* runs out of attempts, every field of K6Metrics is 0, and of the four
\* verdicts P95 Latency, Error Rate and Average Response Time pass and
\* Service Availability alone fails.
C25_NoDataVerdicts ==
    /\ (backend = "nodata" /\ k6_pc = "done" =>
          /\ wait_result = "False"
          /\ k6.total_requests = 0 /\ k6.failed_requests = 0
          /\ \A f \in {"request_rate", "p95_latency_ms", "avg_latency_ms", "min_latency_ms",
                       "max_latency_ms", "error_rate"} : k6[f] = Zero)
    /\ (backend = "nodata" /\ pc = "evaluate" => eval_pc # "raised")
    /\ (backend = "nodata" /\ eval_pc = "done" =>
          /\ Verdict(results, "P95 Latency")
          /\ Verdict(results, "Error Rate")
          /\ Verdict(results, "Average Response Time")
          /\ ~Verdict(results, "Service Availability")
          /\ NotPassed = {3})

\* C25: the probe was exhausted, every query had no data and the verdicts
\* are in junit.xml
C25_Witness ==
    /\ backend = "nodata" /\ wait_result = "False"
    /\ eval_pc = "done" /\ junit_pc = "done"
    /\ k6.total_requests = 0 /\ k6.p95_latency_ms = Zero
    /\ junit_xml.testsuite.failures = 1

====
